---------------------------- MODULE Spec2Model ----------------------------
(***************************************************************************)
(* A model of pumpy (src/pumpy.py): drivers for Harvard Pump 11, PHD2000,  *)
(* Pump 33 and the SSI Mighty Mini on a shared serial chain.               *)
(*                                                                         *)
(* Python strings are tuples of one-character strings, so that slicing,    *)
(* stripping and substring tests are computed as the code computes them.   *)
(* A call of a driver method is one action.  The bytes the channel returns *)
(* are the environment's choice: every round trip of a call takes the next *)
(* entry of a script, and an action draws the scripts that the call reads  *)
(* to its end.                                                             *)
(***************************************************************************)
EXTENDS Integers, Sequences, FiniteSets, TLC

VARIABLES
    family,   \* the driver class of the session
    address,  \* the configured pump address (an integer)
    chan,     \* the serial channel: "open" or "closed"
    obj,      \* the driver object: "none", "live", "failed"
    hw,       \* the pump's registers
    cache,    \* the driver object's cached fields
    last,     \* what the last call did
    session   \* the command-line session: its arguments and where it is

vars == <<family, address, chan, obj, hw, cache, last, session>>

----------------------------------------------------------------------------
(* Bounds of the model. *)

\* Pump addresses range over 0..MaxAddr.
MaxAddr == 2
\* At most MaxFaults round trips of one call are answered unfaithfully by
\* the register-backed pump.
MaxFaults == 1
\* A loop of a method is followed for MaxLoop iterations; a call that has not
\* ended by then is recorded as still running ("diverged").
MaxLoop == 3
\* The volume a Pump 11 dispenses, in steps of its volume reading.
MaxVol == 2

\* the longest string remove_crud is given, beyond the listed examples
MaxCrudLen == 4

\* the most fractional digits of a value given to a field encoder
MaxFracLen == 3

----------------------------------------------------------------------------
(* Python string operations on tuples of characters. *)

Min(a, b) == IF a < b THEN a ELSE b
Max(a, b) == IF a > b THEN a ELSE b

\* s[a:b] with Python's clamping; NoIdx stands for an omitted bound.
PyIdx(i, n) == IF i < 0 THEN Max(n + i, 0) ELSE Min(i, n)
Slice(s, a, b) ==
    LET lo == PyIdx(a, Len(s))
        hi == PyIdx(b, Len(s))
    IN  IF hi <= lo THEN <<>> ELSE SubSeq(s, lo + 1, hi)

\* s[a:]
SliceFrom(s, a) ==
    LET lo == PyIdx(a, Len(s))
    IN  IF Len(s) <= lo THEN <<>> ELSE SubSeq(s, lo + 1, Len(s))

\* s[-1] of a non-empty string
LastChar(s) == s[Len(s)]

\* sub in s
Contains(s, sub) ==
    \E i \in 0..(Len(s) - Len(sub)) : SubSeq(s, i + 1, i + Len(sub)) = sub

HasChar(s, ch) == \E i \in 1..Len(s) : s[i] = ch

RECURSIVE RStrip(_, _)
RStrip(s, chars) ==
    IF s # <<>> /\ s[Len(s)] \in chars
    THEN RStrip(SubSeq(s, 1, Len(s) - 1), chars)
    ELSE s

RECURSIVE LStrip(_, _)
LStrip(s, chars) ==
    IF s # <<>> /\ s[1] \in chars
    THEN LStrip(Tail(s), chars)
    ELSE s

\* the first n bytes of what the pump sent: serial.read(n)
Take(s, n) == IF Len(s) <= n THEN s ELSE SubSeq(s, 1, n)

remove_crud(string) ==
    LET s1 == IF HasChar(string, ".") THEN RStrip(string, {"0"}) ELSE string
        s2 == LStrip(s1, {"0", " "})
    IN  RStrip(s2, {" ", "."})

----------------------------------------------------------------------------
(* Literals of the wire protocol. *)

LF == "\n"
CR == "\r"

INFUSE == <<"I", "N", "F", "U", "S", "E">>
REFILL == <<"R", "E", "F", "I", "L", "L">>
REVERSE == <<"R", "E", "V", "E", "R", "S", "E">>
ON == <<"O", "N">>
OFF == <<"O", "F", "F">>
AUT == <<"A", "U", "T">>
PRO == <<"P", "R", "O">>
CON == <<"C", "O", "N">>
OOR == <<"O", "O", "R">>

cVER == <<"V", "E", "R">>
cMOD == <<"M", "O", "D">>
cDIR == <<"D", "I", "R">>
cDIR_REV == <<"D", "I", "R", " ", "R", "E", "V">>
cPAR == <<"P", "A", "R">>
cPAR_ON == <<"P", "A", "R", " ", "O", "N">>
cPAR_OFF == <<"P", "A", "R", " ", "O", "F", "F">>
cRUN == <<"R", "U", "N">>
cMMD == <<"M", "M", "D">>
cDIA == <<"D", "I", "A">>
cULM == <<"U", "L", "M">>
cRAT == <<"R", "A", "T">>
cMLT == <<"M", "L", "T">>
cDIA_A == <<"D", "I", "A", " ", "A">>
cDIA_B == <<"D", "I", "A", " ", "B">>
cRAT_A == <<"R", "A", "T", " ", "A">>
cRAT_B == <<"R", "A", "T", " ", "B">>
cUM == <<"U", "M">>
cFM == <<"F", "M">>
cCC == <<"C", "C">>
cSTP == <<"S", "T", "P">>
cREV == <<"R", "E", "V">>
cVOL == <<"V", "O", "L">>
cRU == <<"R", "U">>
cST == <<"S", "T">>

Digit(d) == CASE d = 0 -> "0" [] d = 1 -> "1" [] d = 2 -> "2" [] d = 3 -> "3"
              [] d = 4 -> "4" [] d = 5 -> "5" [] d = 6 -> "6" [] d = 7 -> "7"
              [] d = 8 -> "8" [] d = 9 -> "9"

DigitChars == {"0", "1", "2", "3", "4", "5", "6", "7", "8", "9"}

DigitVal(ch) == CHOOSE d \in 0..9 : Digit(d) = ch

\* "{0:02.0f}".format(address)
AddrStr(a) == <<Digit((a \div 10) % 10), Digit(a % 10)>>

\* what is written to the channel: address + command + "\r"
Wire(addr, command) == addr \o command \o <<CR>>

\* the command of a frame carrying a two-digit address
CmdOf(frame) == SubSeq(frame, 3, Len(frame) - 1)

StartsWith(s, p) == Len(s) >= Len(p) /\ SubSeq(s, 1, Len(p)) = p

\* resp[-1] == ":" or resp[-1] == "<" or resp[-1] == ">"
StatusOK(resp) == LastChar(resp) = ":" \/ LastChar(resp) = "<" \/ LastChar(resp) = ">"

----------------------------------------------------------------------------
(* Python numbers.  An int or float argument is its decimal expansion: the *)
(* integer part ip and the fractional digits frac, frac without trailing   *)
(* zeros; f tells a float from an int.                                     *)

IntNum(ip) == [f |-> FALSE, ip |-> ip, frac |-> <<>>]
FloatNum(ip, frac) == [f |-> TRUE, ip |-> ip, frac |-> frac]

RECURSIVE IntStr(_)
IntStr(n) == IF n < 10 THEN <<Digit(n)>> ELSE IntStr(n \div 10) \o <<Digit(n % 10)>>

\* str(x), for magnitudes that Python prints without an exponent
Str(x) ==
    IF x.f
    THEN IntStr(x.ip) \o <<".">> \o (IF x.frac = <<>> THEN <<"0">> ELSE x.frac)
    ELSE IntStr(x.ip)

Whitespace == {" ", LF, CR}
Strip(s) == RStrip(LStrip(s, Whitespace), Whitespace)

AllDigits(s) == \A i \in 1..Len(s) : s[i] \in DigitChars

RECURSIVE DigitsVal(_)
DigitsVal(s) ==
    IF s = <<>> THEN 0
    ELSE 10 * DigitsVal(SubSeq(s, 1, Len(s) - 1)) + DigitVal(s[Len(s)])

\* int(s) of a string: ok is FALSE where Python raises ValueError
PyInt(s) ==
    LET t == Strip(s)
    IN  IF t # <<>> /\ AllDigits(t)
        THEN [ok |-> TRUE, v |-> DigitsVal(t)]
        ELSE [ok |-> FALSE, v |-> 0]

\* float(s) of a string: ok is FALSE where Python raises ValueError
PyFloat(s) ==
    LET t == Strip(s)
        dots == {i \in 1..Len(t) : t[i] = "."}
        k == IF dots = {} THEN Len(t) + 1 ELSE CHOOSE i \in dots : TRUE
        ipart == SubSeq(t, 1, k - 1)
        fpart == IF k >= Len(t) THEN <<>> ELSE SubSeq(t, k + 1, Len(t))
    IN  IF Cardinality(dots) <= 1 /\ AllDigits(ipart) /\ AllDigits(fpart)
            /\ Len(ipart) + Len(fpart) > 0
        THEN [ok |-> TRUE, ip |-> DigitsVal(ipart), frac |-> RStrip(fpart, {"0"})]
        ELSE [ok |-> FALSE, ip |-> 0, frac |-> <<>>]

RECURSIVE ZeroPad(_, _)
\* digits padded on the left with zeros to a width
ZeroPad(digits, width) ==
    IF Len(digits) >= width THEN digits ELSE ZeroPad(<<"0">> \o digits, width)

RECURSIVE PadRight(_, _)
PadRight(digits, width) ==
    IF Len(digits) >= width THEN digits ELSE PadRight(digits \o <<"0">>, width)

\* float(x) / 1000.0 and x * 1000.0 on decimal expansions; for the values of
\* the model the digits the drivers keep are those of the doubles
Div1000(x) ==
    FloatNum(x.ip \div 1000, RStrip(ZeroPad(IntStr(x.ip % 1000), 3) \o x.frac, {"0"}))
Mul1000(x) ==
    LET fr == PadRight(x.frac, 3)
    IN  FloatNum(x.ip * 1000 + DigitsVal(SubSeq(fr, 1, 3)),
                 RStrip(SubSeq(fr, 4, Len(fr)), {"0"}))

\* x > k and x < 0.1 for a number x and an integer k
GreaterThan(x, k) == x.ip > k \/ (x.ip = k /\ x.frac # <<>>)
LessThanTenth(x) == x.ip = 0 /\ (x.frac = <<>> \/ x.frac[1] = "0")

----------------------------------------------------------------------------
(* The pump as the drivers see it.  Mode, direction of syringe 1, the      *)
(* parallel/reciprocal flag and the run state are registers; a reply to a  *)
(* query is "\n" payload "\n" address status, an acknowledgement is "\n"   *)
(* address status.                                                         *)

Modes == {AUT, PRO, CON}
Dirs == {INFUSE, REFILL}
Pars == {ON, OFF}
RunStates == {":", ">", "<"}

\* peer "pump33" is a Pump 33 answering from its registers; with peer "any"
\* nothing is known of what is on the chain, and any reply may arrive
HwStates == [peer : {"pump33"}, run : RunStates, mode : Modes, dir1 : Dirs, par : Pars]

AnyPeer == [peer |-> "any", run |-> ":", mode |-> AUT, dir1 |-> INFUSE, par |-> ON]

OtherDir(d) == IF d = INFUSE THEN REFILL ELSE INFUSE

Reply33(payload, addr, status) == <<LF>> \o payload \o <<LF>> \o addr \o <<status>>
Ack(addr, status) == <<LF>> \o addr \o <<status>>

RegisterCmds ==
    {cDIR, cDIR_REV, cPAR, cPAR_ON, cPAR_OFF, cMOD, cRUN, cSTP}
        \cup {cMOD \o m : m \in Modes}

QueryCmds == {cDIR, cPAR, cMOD}

\* the registers after the pump has carried out a command
DevApply(cmd, h) ==
    CASE cmd = cDIR_REV -> [h EXCEPT !.dir1 = OtherDir(h.dir1),
                                     !.run = IF h.run = ":" THEN ":"
                                             ELSE IF h.run = ">" THEN "<" ELSE ">"]
      [] cmd = cPAR_ON -> [h EXCEPT !.par = ON]
      [] cmd = cPAR_OFF -> [h EXCEPT !.par = OFF]
      [] cmd = cRUN -> [h EXCEPT !.run = IF h.dir1 = INFUSE THEN ">" ELSE "<"]
      [] cmd = cSTP -> [h EXCEPT !.run = ":"]
      [] StartsWith(cmd, cMOD) /\ Len(cmd) > 3 -> [h EXCEPT !.mode = SliceFrom(cmd, 3)]
      [] OTHER -> h

DevPayload(cmd, h) ==
    CASE cmd = cDIR -> h.dir1
      [] cmd = cPAR -> h.par
      [] cmd = cMOD -> h.mode

DevReply(cmd, addr, h) ==
    IF cmd \in QueryCmds
    THEN Reply33(DevPayload(cmd, h), addr, h.run)
    ELSE Ack(addr, h.run)

\* the answers of a pump that honours the command
Faithful(frame, h) ==
    LET cmd == CmdOf(frame)
        h2 == DevApply(cmd, h)
    IN  [resp |-> DevReply(cmd, SubSeq(frame, 1, 2), h2), hw |-> h2, fault |-> FALSE]

\* the answers of a pump that does not: silence, an unrecognized status
\* character, a command acknowledged and not carried out, a query answered
\* with something else
Faulty(frame, h) ==
    LET cmd == CmdOf(frame)
        addr == SubSeq(frame, 1, 2)
        h2 == DevApply(cmd, h)
    IN  {[resp |-> <<>>, hw |-> h, fault |-> TRUE],
         [resp |-> IF cmd \in QueryCmds
                   THEN Reply33(DevPayload(cmd, h), addr, "?")
                   ELSE Ack(addr, "?"),
          hw |-> h2, fault |-> TRUE]}
        \cup (IF cmd \in QueryCmds
              THEN {[resp |-> Reply33(<<"?", "?">>, addr, h.run), hw |-> h, fault |-> TRUE]}
              ELSE {[resp |-> Ack(addr, h.run), hw |-> h, fault |-> TRUE]})

NumFaults(script) == Cardinality({i \in 1..Len(script) : script[i].fault})

\* peer "pump11" is a Pump 11 that always replies: it runs in its direction
\* on RUN, flips its direction on REV, stops on STP and on reaching MaxVol
Hw11States ==
    {h \in [peer : {"pump11"}, run : RunStates, mode : {AUT}, dir1 : Dirs, par : {ON},
            vol : 0..MaxVol] :
        /\ (h.run = ">") => (h.dir1 = INFUSE)
        /\ (h.run = "<") => (h.dir1 = REFILL)
        /\ (h.run # ":") => (h.vol < MaxVol)}

\* the volume reading and the reply to a VOL poll
VolumeReading(v) == PadRight(IntStr(v) \o <<".">>, 6)
Reply11Vol(p, addr, status) == <<CR, LF>> \o p \o <<CR, LF>> \o addr \o <<status>>

\* a Pump 11 that never reaches a target: the volume it reports keeps
\* changing and it keeps running
Dev11ApplyEndless(cmd, h) ==
    IF cmd = cVOL /\ h.run # ":"
    THEN {h, [h EXCEPT !.vol = (h.vol + 1) % MaxVol]}
    ELSE {h}

\* the Pump 11 after a command; between two polls the volume may have gone
\* one step further, and the pump stops at MaxVol
Dev11Apply(cmd, h) ==
    CASE cmd = cRUN -> {[h EXCEPT !.run = IF h.dir1 = INFUSE THEN ">" ELSE "<",
                                  !.vol = IF h.vol = MaxVol THEN 0 ELSE h.vol]}
      [] cmd = cREV -> {[h EXCEPT !.dir1 = OtherDir(h.dir1),
                                  !.run = IF h.run = ":" THEN ":"
                                          ELSE IF h.run = ">" THEN "<" ELSE ">"]}
      [] cmd = cSTP -> {[h EXCEPT !.run = ":"]}
      [] cmd = cVOL ->
            IF h.run = ":" THEN {h}
            ELSE {h, [h EXCEPT !.vol = h.vol + 1,
                               !.run = IF h.vol + 1 = MaxVol THEN ":" ELSE h.run]}
      [] OTHER -> {}

Dev11Options(frame, h) ==
    {[resp |-> IF CmdOf(frame) = cVOL
               THEN Reply11Vol(VolumeReading(h2.vol), SubSeq(frame, 1, 2), h2.run)
               ELSE Ack(SubSeq(frame, 1, 2), h2.run),
      hw |-> h2, fault |-> FALSE] : h2 \in Dev11Apply(CmdOf(frame), h)}

\* the replies to the version probe of a constructor: none, the version with
\* any address and status, and replies with no address in them
ProbeReplies ==
    {<<>>, <<":">>, <<LF, "X", "Y", ":">>}
        \cup {Reply33(<<"3", "3">>, AddrStr(a), st) : a \in 0..MaxAddr, st \in RunStates}

\* the replies to a frame that sets a value: none, out-of-range notices
\* with and without a status character after them, and acknowledgements
\* with each status character and with an unrecognized one
AckReplies(addr) ==
    {<<>>, <<LF, "O", "O", "R", CR>>, <<LF, "O", "O", "R", ":">>}
        \cup {Ack(addr, st) : st \in RunStates \cup {"?"}}

\* a register as the pump prints it: six characters, zeros after the point
Render6(field) ==
    LET a == IF field # <<>> /\ field[1] = "." THEN <<"0">> \o field ELSE field
        b == IF HasChar(a, ".") THEN a ELSE a \o <<".">>
    IN  PadRight(b, 6)

Junk6 == <<"?", "?", "?", "?", "?", "?">>

Reply11Dia(p, addr) == <<CR, LF, " ">> \o p \o <<CR, LF>> \o addr \o <<":">>
Reply11Rat(p, addr) ==
    <<CR, LF>> \o p \o <<" ", "u", "l", "/", "m", "n", CR, LF>> \o addr \o <<":">>
Reply33Rat(p, addr) ==
    <<LF>> \o p \o <<" ", "u", "l", "/", "m", "n", LF>> \o addr \o <<":">>
ReplyMiniRate(p) == <<"O", "K", ",", "C", "C">> \o p \o <<"/">>

\* the replies to a query of a register, printing one of the values
QueryReplies(make(_), values) == {<<>>, make(Junk6)} \cup {make(Render6(v)) : v \in values}

\* the replies an unknown peer may give to a frame; the values it may print
\* are those the session's calls may ask for
AnyReplies(fam, frame, dias, rates) ==
    IF fam = "MightyMini"
    THEN IF StartsWith(frame, cFM) \/ frame \in {cRU, cST}
         THEN {<<>>, <<"O">>, <<"O", "K", "/">>, <<"E", "1", "/">>}
         ELSE {<<>>, ReplyMiniRate(<<"?">>)} \cup {ReplyMiniRate(v) : v \in rates}
    ELSE
    LET cmd == CmdOf(frame)
        addr == SubSeq(frame, 1, 2)
    IN  CASE cmd = cVER -> ProbeReplies
          [] cmd = cMOD ->
                {<<>>, Reply33(<<"?", "?">>, addr, ":")}
                    \cup {Reply33(m, addr, ":") : m \in Modes}
          [] cmd = cDIA /\ fam # "Pump33" ->
                QueryReplies(LAMBDA q : Reply11Dia(q, addr), dias)
          [] cmd = cRAT /\ fam # "Pump33" ->
                QueryReplies(LAMBDA q : Reply11Rat(q, addr), rates)
          [] cmd \in {cDIA_A, cDIA_B} ->
                QueryReplies(LAMBDA q : Reply33(q, addr, ":"), dias)
          [] cmd \in {cRAT_A, cRAT_B} ->
                QueryReplies(LAMBDA q : Reply33Rat(q, addr), rates)
          [] cmd = cVOL ->
                {<<>>} \cup {Reply11Vol(VolumeReading(v), addr, st) :
                                v \in 1..MaxVol, st \in {":", ">"}}
          [] cmd = cSTP -> AckReplies(addr) \cup {Ack(addr, "*")}
          [] OTHER -> AckReplies(addr)

----------------------------------------------------------------------------
(* A call in progress. *)

None == [t |-> "None", n |-> 0, s |-> <<>>]
StrVal(s) == [t |-> "str", n |-> 0, s |-> s]
FloatVal(ip, frac) == [t |-> "float", n |-> ip, s |-> frac]
IntVal(n) == [t |-> "int", n |-> n, s |-> <<>>]

NoCache ==
    [diameter |-> None, flowrate |-> None, targetvolume |-> None, mode |-> None,
     diameter1 |-> None, diameter2 |-> None, flowrate1 |-> None, flowrate2 |-> None,
     direction1 |-> None, direction2 |-> None]

Ctx(fam, addr, h, ca, script) ==
    [st |-> "run", exc |-> "", err |-> "", fam |-> fam, addr |-> addr,
     chan |-> "open", frames |-> <<>>,
     script |-> script, hw |-> h, cache |-> ca, resp |-> <<>>, resps |-> <<>>,
     log |-> <<>>, pend |-> <<>>, ret |-> <<>>]

Raise(c, exc, err) == [c EXCEPT !.st = "raise", !.exc = exc, !.err = err]
Log(c, lvl, what) == [c EXCEPT !.log = Append(@, <<lvl, what>>)]

\* One round trip: the frame is written, up to n bytes are read.  With the
\* script used up the call waits for the next answer.
RoundTrip(c, frame, n) ==
    IF c.script = <<>>
    THEN [c EXCEPT !.st = "blocked", !.pend = frame]
    ELSE LET e == Head(c.script)
         IN  [c EXCEPT !.frames = Append(@, frame), !.script = Tail(@),
                       !.hw = e.hw, !.resp = Take(e.resp, n),
                       !.resps = Append(@, Take(e.resp, n))]

\* The statements after a call run only if it returned: an exception, or a
\* wait for the channel, ends the method there.
Then(c, rest(_)) == IF c.st # "run" THEN c ELSE rest(c)

\* A local variable of a method.
With(v, rest(_)) == rest(v)

\* A method called from a method goes through Exec, which is defined below
\* the methods.
RECURSIVE Exec(_, _, _)
Write33(c, command, read_bytes) == Exec("Pump33.write", <<command, read_bytes>>, c)
WriteRead11(c, command, num_bytes) == Exec("Pump.write_read", <<command, num_bytes>>, c)
call_par(c) == Exec("par", <<>>, c)
call_get_direction_2(c) == Exec("get_direction_2", <<>>, c)

\* Pump33.write
Pump33_write(c, command, read_bytes) ==
    Then(RoundTrip(c, Wire(c.addr, command), read_bytes), LAMBDA c1 :
        IF Len(c1.resp) = 0 THEN Raise(c1, "PumpError", "no response") ELSE c1)

\* Pump.write followed by Pump.read
Pump_write_read(c, command, num_bytes) ==
    Then(RoundTrip(c, Wire(c.addr, command), num_bytes), LAMBDA c1 :
        IF Len(c1.resp) = 0 THEN Raise(c1, "PumpError", "no response") ELSE c1)

----------------------------------------------------------------------------
(* Construction: the version probe of Pump.__init__ (also PHD2000's) and   *)
(* of Pump33.__init__.                                                     *)

\* int(resp[-3:-1]) != int(self.address), raising inside the try block
probe_check(c) ==
    With(PyInt(Slice(c.resp, -3, -1)), LAMBDA got :
        IF ~got.ok THEN Raise(c, "ValueError", "invalid literal for int()")
        ELSE IF got.v # PyInt(c.addr).v
        THEN Raise(c, "PumpError", "no response from pump at address")
        ELSE c)

\* a handler that re-raises and leaves the channel as it is: C1 fails of it
probe_except_leaves_open(c) == c

\* except PumpError: self.serial.close(); raise
probe_except(c) ==
    IF c.st = "raise" /\ c.exc = "PumpError" THEN [c EXCEPT !.chan = "closed"] ELSE c

\* Pump.__init__
pump_init(c) ==
    probe_except(
        Then(WriteRead11(c, cVER, 17), LAMBDA c1 :
        Then(probe_check(c1), LAMBDA c2 :
        Log(c2, "info", "created"))))

\* Pump33.__init__
pump33_init(c) ==
    probe_except(
        Then(Write33(c, cVER, 11), LAMBDA c1 :
        Then(probe_check(c1), LAMBDA c2 :
        Log(Log(c2, "info", "found pump"), "info", "created"))))

----------------------------------------------------------------------------
(* Pump (Harvard Pump 11) and PHD2000: the set operations. *)

\* diameter > 35 or diameter < 0.1
diameter_out_of_range(diameter) == GreaterThan(diameter, 35) \/ LessThanTenth(diameter)

\* the diameter field of Pump.setdiameter: str, cut to two decimal places
\* when longer than 5 characters, remove_crud
diameter_cut(d) ==
    IF Len(d) > 5
    THEN remove_crud(IF d[3] = "." THEN Slice(d, 0, 5)
                     ELSE IF d[2] = "." THEN Slice(d, 0, 4)
                     ELSE d)
    ELSE remove_crud(d)

\* diameter = str(diameter), and the cut
diameter_field(diameter) == diameter_cut(Str(diameter))

\* the warning logged when str(value) is longer than width
warn_truncated(c, value, width, what) ==
    IF Len(Str(value)) > width THEN Log(c, "warning", what) ELSE c

\* Pump.setdiameter
setdiameter(c, diameter) ==
    IF diameter_out_of_range(diameter)
    THEN Raise(c, "PumpError", "diameter is out of range")
    ELSE
    With(diameter_field(diameter), LAMBDA field :
    Then(WriteRead11(warn_truncated(c, diameter, 5, "diameter truncated"),
                     cMMD \o field, 5), LAMBDA c1 :
        IF StatusOK(c1.resp)
        THEN Then(WriteRead11(c1, cDIA, 15), LAMBDA c2 :
             With(remove_crud(Slice(c2.resp, 3, 9)), LAMBDA returned_diameter :
             With(PyFloat(returned_diameter), LAMBDA v :
                 IF returned_diameter # field
                 THEN Log(c2, "error", "diameter mismatch")
                 ELSE IF ~v.ok
                 THEN Raise(c2, "ValueError", "could not convert string to float")
                 ELSE Log([c2 EXCEPT !.cache.diameter = FloatVal(v.ip, v.frac)],
                          "info", "diameter set"))))
        ELSE Raise(c1, "PumpError", "unknown response to setdiameter")))

\* a cut of the flow rate to 6 characters
flowrate_cut_wide(f) ==
    IF Len(f) > 6 THEN remove_crud(Slice(f, 0, 6)) ELSE remove_crud(f)

\* the flow-rate field of Pump.setflowrate
flowrate_cut(f) ==
    IF Len(f) > 5 THEN remove_crud(Slice(f, 0, 5)) ELSE remove_crud(f)

\* flowrate = str(flowrate), and the cut
flowrate_field(flowrate) == flowrate_cut(Str(flowrate))

\* Pump.setflowrate
setflowrate(c, flowrate) ==
    With(flowrate_field(flowrate), LAMBDA field :
    Then(WriteRead11(warn_truncated(c, flowrate, 5, "flow rate truncated"),
                     cULM \o field, 5), LAMBDA c1 :
        IF StatusOK(c1.resp)
        THEN Then(WriteRead11(c1, cRAT, 150), LAMBDA c2 :
             With(remove_crud(Slice(c2.resp, 2, 8)), LAMBDA returned_flowrate :
                 IF returned_flowrate # field
                 THEN Log(c2, "error", "flowrate mismatch")
                 ELSE Log([c2 EXCEPT !.cache.flowrate = StrVal(returned_flowrate)],
                          "info", "flow rate set")))
        ELSE IF Contains(c1.resp, OOR)
        THEN Raise(c1, "PumpError", "flow rate is out of range")
        ELSE Raise(c1, "PumpError", "unknown response")))

\* Pump.settargetvolume
settargetvolume(c, targetvolume) ==
    Then(WriteRead11(c, cMLT \o Str(targetvolume), 5), LAMBDA c1 :
        IF StatusOK(c1.resp)
        THEN Log([c1 EXCEPT !.cache.targetvolume =
                                FloatVal(targetvolume.ip, targetvolume.frac)],
                 "info", "target volume set")
        ELSE Raise(c1, "PumpError", "target volume not set"))

\* the target-volume field of PHD2000.settargetvolume, in mL
phd_targetvolume_field(targetvolume) ==
    With(Str(Div1000(targetvolume)), LAMBDA t :
        IF Len(t) > 5 THEN Slice(t, 0, 5) ELSE t)

\* PHD2000.settargetvolume
phd_settargetvolume(c, targetvolume) ==
    With(phd_targetvolume_field(targetvolume), LAMBDA field :
    Then(WriteRead11(warn_truncated(c, Div1000(targetvolume), 5, "target volume truncated"),
                     cMLT \o field, 5), LAMBDA c1 :
        IF StatusOK(c1.resp)
        THEN With(Mul1000(PyFloat(field)), LAMBDA v :
                 Log([c1 EXCEPT !.cache.targetvolume = FloatVal(v.ip, v.frac)],
                     "info", "target volume set"))
        ELSE c1))

----------------------------------------------------------------------------
(* MightyMini: frames carry no address and no terminator. *)

\* "{:04d}".format(flowrate) of min(int(flowrate), 9999)
mini_flowrate(flowrate) == IF flowrate.ip > 9999 THEN 9999 ELSE flowrate.ip
\* "{:04d}".format(n): the sign counts in the width
mini_field(n) ==
    IF n < 0 THEN <<"-">> \o ZeroPad(IntStr(0 - n), 3) ELSE ZeroPad(IntStr(n), 4)

\* "FM" + "{:04d}".format(flowrate)
mini_frame(flowrate) == cFM \o mini_field(mini_flowrate(flowrate))

\* MightyMini.setflowrate
mini_setflowrate(c, flowrate) ==
    With(mini_flowrate(flowrate), LAMBDA n :
    Then(RoundTrip(IF flowrate.ip > 9999 THEN Log(c, "warning", "flow rate limited") ELSE c,
                   mini_frame(flowrate), 3), LAMBDA c1 :
        IF Len(c1.resp) = 0 THEN Raise(c1, "PumpError", "no response to set flowrate") ELSE
        IF c1.resp[1] = "O" /\ Len(c1.resp) < 2
        THEN Raise(c1, "IndexError", "string index out of range") ELSE
        IF c1.resp[1] = "O" /\ c1.resp[2] = "K"
        THEN Then(RoundTrip(c1, cCC, 11), LAMBDA c2 :
             With(PyFloat(Slice(c2.resp, 5, -1)), LAMBDA v :
                 IF ~v.ok THEN Raise(c2, "ValueError", "could not convert string to float")
                 ELSE
                 With(Mul1000(v).ip, LAMBDA returned_flowrate :
                     IF returned_flowrate # n
                     THEN Raise(c2, "PumpError", "flowrate mismatch")
                     ELSE Log([c2 EXCEPT !.cache.flowrate = IntVal(returned_flowrate)],
                              "info", "flow rate set"))))
        ELSE Raise(c1, "PumpError", "error setting flow rate")))

----------------------------------------------------------------------------
(* Pump33: mode, diameters and flow rates. *)

ModeNames == {AUT, PRO, CON}

\* Pump33.setmode
setmode(c, mode) ==
    IF mode \notin ModeNames
    THEN Raise(c, "PumpError", "not a mode name")
    ELSE
    Then(Write33(c, cMOD \o mode, 5), LAMBDA c1 :
        IF StatusOK(c1.resp)
        THEN Then(Write33(c1, cMOD, 15), LAMBDA c2 :
                 IF Slice(c2.resp, 1, -4) # mode
                 THEN Log(c2, "error", "mode mismatch")
                 ELSE Log([c2 EXCEPT !.cache.mode = StrVal(mode)], "info", "mode set"))
        ELSE Raise(c1, "PumpError", "unknown response to setmode"))

\* diameter > 50 or diameter < 0.1
diameter33_out_of_range(diameter) == GreaterThan(diameter, 50) \/ LessThanTenth(diameter)

\* the field of a Pump33 diameter or flow rate: str, cut to 6 characters,
\* remove_crud
cut33(d) ==
    IF Len(d) > 6 THEN remove_crud(Slice(d, 0, 6)) ELSE remove_crud(d)

\* str(x), and the cut
field33(x) == cut33(Str(x))

\* float(returned) against float(field): "mismatch", "match", or "error"
\* where float() raises ValueError
compare33(returned, field) ==
    With(PyFloat(returned), LAMBDA a :
    With(PyFloat(field), LAMBDA b :
        IF ~a.ok \/ ~b.ok THEN "error"
        ELSE IF a.ip # b.ip \/ a.frac # b.frac THEN "mismatch"
        ELSE "match"))

\* a mode test that lets every mode through: C2 fails of it
mode_check_skipped(resp) == TRUE

\* the mode query that opens the syringe-2 operations
mode_is_proportional(resp) == Slice(resp, 1, -4) = PRO

\* Pump33.setdiameter1
setdiameter1(c, diameter) ==
    IF diameter33_out_of_range(diameter)
    THEN Raise(c, "PumpError", "diameter is out of range")
    ELSE
    With(field33(diameter), LAMBDA field :
    Then(Write33(warn_truncated(c, diameter, 6, "diameter truncated"),
                 cDIA_A \o field, 5), LAMBDA c1 :
        IF StatusOK(c1.resp)
        THEN Then(Write33(c1, cDIA_A, 15), LAMBDA c2 :
             With(Slice(c2.resp, 1, -4), LAMBDA returned_diameter :
             With(compare33(returned_diameter, field), LAMBDA cmp :
             With(PyFloat(returned_diameter), LAMBDA v :
                 IF cmp = "error"
                 THEN Raise(c2, "ValueError", "could not convert string to float")
                 ELSE IF cmp = "mismatch"
                 THEN Log(c2, "error", "diameter mismatch")
                 ELSE Log([c2 EXCEPT !.cache.diameter1 = FloatVal(v.ip, v.frac)],
                          "info", "diameter1 set")))))
        ELSE Raise(c1, "PumpError", "unknown response to setdiameter1")))

\* Pump33.setdiameter2
setdiameter2(c, diameter) ==
    Then(Write33(c, cMOD, 15), LAMBDA cm :
        IF ~mode_is_proportional(cm.resp)
        THEN Raise(cm, "PumpError", "only valid in Proportional mode")
        ELSE
        IF diameter33_out_of_range(diameter)
        THEN Raise(cm, "PumpError", "diameter is out of range")
        ELSE
        With(field33(diameter), LAMBDA field :
        Then(Write33(warn_truncated(cm, diameter, 6, "diameter truncated"),
                     cDIA_B \o field, 5), LAMBDA c1 :
            IF StatusOK(c1.resp)
            THEN Then(Write33(c1, cDIA_B, 15), LAMBDA c2 :
                 With(Slice(c2.resp, 1, -4), LAMBDA returned_diameter :
                 With(compare33(returned_diameter, field), LAMBDA cmp :
                 With(PyFloat(returned_diameter), LAMBDA v :
                     IF cmp = "error"
                     THEN Raise(c2, "ValueError", "could not convert string to float")
                     ELSE IF cmp = "mismatch"
                     THEN Log(c2, "error", "diameter mismatch")
                     ELSE Log([c2 EXCEPT !.cache.diameter2 = FloatVal(v.ip, v.frac)],
                              "info", "diameter2 set")))))
            ELSE Raise(c1, "PumpError", "unknown response to setdiameter2"))))

\* Pump33.setflowrate1
setflowrate1(c, flowrate) ==
    With(field33(flowrate), LAMBDA field :
    Then(Write33(warn_truncated(c, flowrate, 6, "flow rate truncated"),
                 cRAT_A \o field \o cUM, 5), LAMBDA c1 :
        IF StatusOK(c1.resp)
        THEN Then(Write33(c1, cRAT_A, 20), LAMBDA c2 :
             With(remove_crud(Slice(c2.resp, 1, 7)), LAMBDA returned_flowrate :
             With(compare33(returned_flowrate, field), LAMBDA cmp :
             With(PyFloat(returned_flowrate), LAMBDA v :
                 IF cmp = "error"
                 THEN Raise(c2, "ValueError", "could not convert string to float")
                 ELSE IF cmp = "mismatch"
                 THEN Log(c2, "error", "flowrate mismatch")
                 ELSE Log([c2 EXCEPT !.cache.flowrate1 = FloatVal(v.ip, v.frac)],
                          "info", "flowrate1 set")))))
        ELSE IF Contains(c1.resp, OOR)
        THEN Raise(c1, "PumpError", "flow rate is out of range")
        ELSE Raise(c1, "PumpError", "unknown response to setflowrate1")))

\* Pump33.setflowrate2
setflowrate2(c, flowrate) ==
    Then(Write33(c, cMOD, 15), LAMBDA cm :
        IF ~mode_is_proportional(cm.resp)
        THEN Raise(cm, "PumpError", "only valid in Proportional mode")
        ELSE
        With(field33(flowrate), LAMBDA field :
        Then(Write33(warn_truncated(cm, flowrate, 6, "flow rate truncated"),
                     cRAT_B \o field \o cUM, 5), LAMBDA c1 :
            IF StatusOK(c1.resp)
            THEN Then(Write33(c1, cRAT_B, 5), LAMBDA c2 :
                 With(remove_crud(Slice(c2.resp, 1, 7)), LAMBDA returned_flowrate :
                 With(compare33(returned_flowrate, field), LAMBDA cmp :
                 With(PyFloat(returned_flowrate), LAMBDA v :
                     IF cmp = "error"
                     THEN Raise(c2, "ValueError", "could not convert string to float")
                     ELSE IF cmp = "mismatch"
                     THEN Log(c2, "error", "flowrate mismatch")
                     ELSE Log([c2 EXCEPT !.cache.flowrate2 = FloatVal(v.ip, v.frac)],
                              "info", "flowrate2 set")))))
            ELSE IF Contains(c1.resp, OOR)
            THEN Raise(c1, "PumpError", "flow rate is out of range")
            ELSE Raise(c1, "PumpError", "unknown response to setflowrate2"))))

----------------------------------------------------------------------------
(* Pump33: the direction/link operations. *)

DirNames == {INFUSE, REFILL, REVERSE}

get_other_direction(direction) == IF direction = INFUSE THEN REFILL ELSE INFUSE

\* a par that queries the flag and does not set it: C9 fails of it
par_query_only(c) == Then(Write33(c, cPAR, 15), LAMBDA c1 : c1)

\* a toggle that does not read the flag back
par_unverified(c) ==
    Then(Write33(c, cPAR, 15), LAMBDA c1 :
        IF Slice(c1.resp, 1, -4) = ON THEN Write33(c1, cPAR_OFF, 5)
        ELSE IF Slice(c1.resp, 1, -4) = OFF THEN Write33(c1, cPAR_ON, 5)
        ELSE Raise(c1, "PumpError", "unknown response to par"))

\* Pump33.par
par(c) ==
    Then(Write33(c, cPAR, 15), LAMBDA c1 :
    With(Slice(c1.resp, 1, -4), LAMBDA original_par :
        IF original_par = ON
        THEN Then(Write33(c1, cPAR_OFF, 5), LAMBDA c2 :
                 IF StatusOK(c2.resp)
                 THEN Then(Write33(c2, cPAR, 15), LAMBDA c3 :
                          IF Slice(c3.resp, 1, -4) # OFF
                          THEN Log(c3, "error", "par did not work")
                          ELSE c3)
                 ELSE c2)
        ELSE IF original_par = OFF
        THEN Then(Write33(c1, cPAR_ON, 5), LAMBDA c2 :
                 IF StatusOK(c2.resp)
                 THEN Then(Write33(c2, cPAR, 15), LAMBDA c3 :
                          IF Slice(c3.resp, 1, -4) # ON
                          THEN Log(c3, "error", "par does not work")
                          ELSE c3)
                 ELSE c2)
        ELSE Raise(c1, "PumpError", "unknown response to par")))

\* a derivation that ignores the parallel flag: C8 fails of it
direction_2_ignoring_par(direction1, parallel) == direction1

\* the direction of syringe 2 from the two replies of get_direction_2
direction_2(direction1, parallel) ==
    IF parallel = ON THEN direction1 ELSE get_other_direction(direction1)

\* Pump33.get_direction_2; the direction is left in ret
get_direction_2(c) ==
    Then(Write33(c, cDIR, 15), LAMBDA c1 :
    Then(Write33(c1, cPAR, 15), LAMBDA c2 :
        [c2 EXCEPT !.ret = direction_2(Slice(c1.resp, 1, 7), Slice(c2.resp, 1, -4))]))

\* a test that takes every direction for a change: C10 fails of it
setdirection1_always(original_dir, direction) == TRUE

\* if original_dir != direction
setdirection1_changes(original_dir, direction) == original_dir # direction

\* Pump33.setdirection1
setdirection1(c, direction) ==
    IF direction \notin DirNames
    THEN Raise(c, "PumpError", "not a direction name")
    ELSE
    Then(Write33(c, cDIR, 15), LAMBDA c1 :
    With(Slice(c1.resp, 1, 7), LAMBDA original_dir :
    Then(IF setdirection1_changes(original_dir, direction)
         THEN Write33(c1, cDIR_REV, 5) ELSE c1, LAMBDA c2 :
    Then(IF setdirection1_changes(original_dir, direction)
         THEN call_par(c2) ELSE c2, LAMBDA c3 :
        IF StatusOK(c2.resp)
        THEN Then(Write33(c3, cDIR, 15), LAMBDA c4 :
             With(IF direction = REVERSE THEN get_other_direction(direction)
                  ELSE direction, LAMBDA dir :
                 IF Slice(c4.resp, 1, 7) # dir
                 THEN Log(c4, "error", "direction1 mismatch")
                 ELSE Log([c4 EXCEPT !.cache.direction1 = StrVal(dir)],
                          "info", "direction1 set")))
        ELSE Raise(c3, "PumpError", "unknown response to setdirection1")))))

\* Pump33.setdirection2
setdirection2(c, direction) ==
    IF direction \notin DirNames
    THEN Raise(c, "PumpError", "not a direction name")
    ELSE
    Then(call_get_direction_2(c), LAMBDA c1 :
    With(c1.ret, LAMBDA start_direction_2 :
    Then(IF direction # start_direction_2 THEN call_par(c1) ELSE c1, LAMBDA c2 :
    With(IF direction = REVERSE THEN get_other_direction(start_direction_2)
         ELSE direction, LAMBDA dir :
    Then(Write33(c2, cPAR, 15), LAMBDA c3 :
        IF StatusOK(c3.resp)
        THEN Then(call_get_direction_2(c3), LAMBDA c4 :
                 IF c4.ret = dir
                 THEN Log([c4 EXCEPT !.cache.direction2 = StrVal(dir)],
                          "info", "direction2 set")
                 ELSE Log(c4, "error", "direction2 mismatch"))
        ELSE Raise(c3, "PumpError", "unknown response to setdirection2"))))))

----------------------------------------------------------------------------
(* Starting, stopping and waiting. *)

\* a call that is still in its loop after MaxLoop iterations
Diverge(c) == [c EXCEPT !.st = "diverged"]

\* a correction that starts the pump again and leaves its direction alone
infuse_correction_run == cRUN

\* the command Pump.infuse writes when the pump runs the wrong way
infuse_correction == cREV

\* the while loop of Pump.infuse, n iterations done; the read at its end is
\* serial.read itself, and the loop test indexes what it returned
RECURSIVE infuse_loop(_, _)
infuse_loop(c, n) ==
    IF LastChar(c.resp) = ">" THEN Log(c, "info", "infusing")
    ELSE IF LastChar(c.resp) = "<"
    THEN IF n >= MaxLoop THEN Diverge(c)
         ELSE Then(RoundTrip(c, Wire(c.addr, infuse_correction), 5), LAMBDA c1 :
                  IF Len(c1.resp) = 0
                  THEN Raise(c1, "IndexError", "string index out of range")
                  ELSE infuse_loop(c1, n + 1))
    ELSE Raise(c, "PumpError", "unknown response to to infuse")

\* Pump.infuse
infuse(c) == Then(WriteRead11(c, cRUN, 5), LAMBDA c1 : infuse_loop(c1, 0))

\* the while loop of Pump.withdraw, n iterations done
RECURSIVE withdraw_loop(_, _)
withdraw_loop(c, n) ==
    IF LastChar(c.resp) = "<" THEN Log(c, "info", "withdrawing")
    ELSE IF LastChar(c.resp) \notin {":", ">"}
    THEN Raise(c, "PumpError", "unknown response to withdraw")
    ELSE IF n >= MaxLoop THEN Diverge(c)
    ELSE Then(WriteRead11(c, IF LastChar(c.resp) = ":" THEN cRUN ELSE cREV, 5), LAMBDA c1 :
             withdraw_loop(c1, n + 1))

\* Pump.withdraw
withdraw(c) == Then(WriteRead11(c, cREV, 5), LAMBDA c1 : withdraw_loop(c1, 0))

\* Pump.stop
stop(c) ==
    Then(WriteRead11(c, cSTP, 5), LAMBDA c1 :
        IF LastChar(c1.resp) # ":"
        THEN Raise(c1, "PumpError", "unexpected response to stop")
        ELSE Log(c1, "info", "stopped"))

\* PHD2000.stop
phd_stop(c) ==
    Then(WriteRead11(c, cSTP, 5), LAMBDA c1 :
        IF LastChar(c1.resp) = "*"
        THEN Log(c1, "info", "stopped")
        ELSE Raise(c1, "PumpError", "unexpected response to stop"))

\* a check for ':' that does not look at the iteration
not_running_any_iteration(resp1, i) == HasChar(resp1, ":")

\* if ":" in resp1 and i == 0
not_running(resp1, i) == HasChar(resp1, ":") /\ i = 0

\* a comparison of the two polls' status characters only
polls_same_status(resp1, resp2) == LastChar(resp1) = LastChar(resp2)

\* if resp1 == resp2
polls_same(resp1, resp2) == resp1 = resp2

\* the while loop of Pump.waituntiltarget, at the head of iteration i
RECURSIVE waituntiltarget_loop(_, _)
waituntiltarget_loop(c, i) ==
    IF i >= MaxLoop THEN Diverge(c) ELSE
    Then(WriteRead11(c, cVOL, 15), LAMBDA c1 :
        IF not_running(c1.resp, i)
        THEN Raise(c1, "PumpError", "not infusing/withdrawing - infuse or withdraw first")
        ELSE IF HasChar(c1.resp, ":") /\ i # 0
        THEN Log(c1, "info", "target volume reached, stopped")
        ELSE Then(WriteRead11(c1, cVOL, 15), LAMBDA c2 :
                 IF polls_same(c1.resp, c2.resp)
                 THEN Log(c2, "info", "target volume reached, stopped")
                 ELSE waituntiltarget_loop(c2, i + 1)))

\* Pump.waituntiltarget
waituntiltarget(c) ==
    waituntiltarget_loop(Log(c, "info", "waiting until target reached"), 0)

\* MightyMini.infuse
mini_infuse(c) ==
    Then(RoundTrip(c, cRU, 3), LAMBDA c1 :
        IF Len(c1.resp) = 0 THEN Raise(c1, "PumpError", "no response to infuse") ELSE
        IF c1.resp[1] = "O" /\ Len(c1.resp) < 2
        THEN Raise(c1, "IndexError", "string index out of range") ELSE
        IF c1.resp[1] = "O" /\ c1.resp[2] = "K" THEN Log(c1, "info", "infusing") ELSE c1)

\* MightyMini.stop
mini_stop(c) ==
    Then(RoundTrip(c, cST, 3), LAMBDA c1 :
        IF Len(c1.resp) = 0 THEN Raise(c1, "PumpError", "no response to stop") ELSE
        IF c1.resp[1] = "O" /\ Len(c1.resp) < 2
        THEN Raise(c1, "IndexError", "string index out of range") ELSE
        IF c1.resp[1] = "O" /\ c1.resp[2] = "K" THEN Log(c1, "info", "stopping") ELSE c1)

\* a start that takes any reply for a confirmation
start_unchecked(c) ==
    Then(Write33(c, cRUN, 5), LAMBDA c1 : Log(c1, "info", "started"))

\* Pump33.start
start(c) ==
    Then(Write33(c, cRUN, 5), LAMBDA c1 :
        IF LastChar(c1.resp) # ">" /\ LastChar(c1.resp) # "<"
        THEN Raise(c1, "PumpError", "unknown response to start")
        ELSE Log(c1, "info", "started"))

\* Pump33.stop
pump33_stop(c) ==
    Then(Write33(c, cSTP, 5), LAMBDA c1 :
        IF LastChar(c1.resp) # ":"
        THEN Raise(c1, "PumpError", "unexpected response to stop")
        ELSE Log(c1, "info", "stopped"))

----------------------------------------------------------------------------
(* The arguments of the session's calls, and the channel. *)

\* diameters: 5, 5.233333, 0.05, 40 and 60 mm
DiameterArgs ==
    {IntNum(5), FloatNum(5, <<"2", "3", "3", "3", "3", "3">>), FloatNum(0, <<"0", "5">>),
     IntNum(40), IntNum(60)}
\* flow rates: 5000 and 9876.54 uL/min
FlowrateArgs == {IntNum(5000), FloatNum(9876, <<"5", "4">>)}
\* target volumes: 500 and 12345.6 uL
TargetArgs == {IntNum(500), FloatNum(12345, <<"6">>)}
\* Mighty Mini flow rates: 5, 7.5 and 12000 uL/min
MiniFlowArgs == {IntNum(5), FloatNum(7, <<"5">>), IntNum(12000)}

\* the values a pump of the family may print: those the calls can have set
PrintedDiameters(fam) ==
    CASE fam = "Pump33" ->
            {field33(x) : x \in {y \in DiameterArgs : ~diameter33_out_of_range(y)}}
      [] fam = "MightyMini" -> {}
      [] OTHER ->
            {diameter_field(x) : x \in {y \in DiameterArgs : ~diameter_out_of_range(y)}}

PrintedRates(fam) ==
    CASE fam = "Pump33" -> {field33(x) : x \in FlowrateArgs}
      [] fam = "MightyMini" ->
            {Str(Div1000(IntNum(mini_flowrate(x)))) : x \in MiniFlowArgs}
      [] OTHER -> {flowrate_field(x) : x \in FlowrateArgs}

\* what the channel may return for a frame, given the answers so far
DevOptions(fam, frame, h, script) ==
    IF h.peer = "pump33"
    THEN IF CmdOf(frame) \in RegisterCmds
         THEN {Faithful(frame, h)}
                \cup (IF NumFaults(script) < MaxFaults THEN Faulty(frame, h) ELSE {})
         ELSE {}
    ELSE IF h.peer = "honest33"
    THEN IF CmdOf(frame) \in RegisterCmds THEN {Faithful(frame, h)} ELSE {}
    ELSE IF h.peer = "pump11" THEN Dev11Options(frame, h)
    ELSE {[resp |-> r, hw |-> h, fault |-> FALSE] :
              r \in AnyReplies(fam, frame, PrintedDiameters(fam), PrintedRates(fam))}

----------------------------------------------------------------------------
(* Calls.  Exec runs a method on the answers of a script; Outcomes draws,  *)
(* answer by answer, every script the call reads to its end.               *)

Exec(op, arg, c) ==
    CASE op = "Pump33.write" -> Pump33_write(c, arg[1], arg[2])
      [] op = "Pump.write_read" -> Pump_write_read(c, arg[1], arg[2])
      [] op = "setdirection1" -> setdirection1(c, arg)
      [] op = "setdirection2" -> setdirection2(c, arg)
      [] op = "par" -> par(c)
      [] op = "get_direction_2" -> get_direction_2(c)
      [] op = "__init__" -> IF c.fam = "Pump33" THEN pump33_init(c) ELSE pump_init(c)
      [] op = "setdiameter" -> setdiameter(c, arg)
      [] op = "setflowrate" ->
            IF c.fam = "MightyMini" THEN mini_setflowrate(c, arg) ELSE setflowrate(c, arg)
      [] op = "settargetvolume" ->
            IF c.fam = "PHD2000" THEN phd_settargetvolume(c, arg) ELSE settargetvolume(c, arg)
      [] op = "setmode" -> setmode(c, arg)
      [] op = "setdiameter1" -> setdiameter1(c, arg)
      [] op = "setdiameter2" -> setdiameter2(c, arg)
      [] op = "setflowrate1" -> setflowrate1(c, arg)
      [] op = "setflowrate2" -> setflowrate2(c, arg)
      [] op = "infuse" -> IF c.fam = "MightyMini" THEN mini_infuse(c) ELSE infuse(c)
      [] op = "withdraw" -> withdraw(c)
      [] op = "stop" ->
            CASE c.fam = "MightyMini" -> mini_stop(c)
              [] c.fam = "PHD2000" -> phd_stop(c)
              [] c.fam = "Pump33" -> pump33_stop(c)
              [] OTHER -> stop(c)
      [] op = "start" -> start(c)
      [] op = "waituntiltarget" -> waituntiltarget(c)

RECURSIVE Outcomes(_, _, _, _, _, _, _)
Outcomes(op, arg, fam, addr, h, ca, script) ==
    With(Exec(op, arg, Ctx(fam, addr, h, ca, script)), LAMBDA res :
        IF res.st = "blocked"
        THEN UNION {Outcomes(op, arg, fam, addr, h, ca, Append(script, e)) :
                        e \in DevOptions(fam, res.pend, res.hw, script)}
        ELSE {[res EXCEPT !.script = script]})

Record(op, arg, res) ==
    [op |-> op, arg |-> arg, st |-> IF res.st = "run" THEN "ok" ELSE res.st,
     exc |-> res.exc, err |-> res.err, frames |-> res.frames,
     resps |-> res.resps, log |-> res.log, ret |-> res.ret,
     faults |-> NumFaults(res.script), hw0 |-> hw, cache0 |-> cache]

\* the arguments of the command line: whether -d, -f, -t and -w are given,
\* and which of -stop, -infuse, -withdraw is
\* given; with -infuse or -withdraw the three settings come together or
\* not at all, and with -w not at all
CliArgs ==
    {a \in [action : {"none", "stop", "infuse", "withdraw"}, diameter : BOOLEAN,
             flowrate : BOOLEAN, targetvolume : BOOLEAN, wait : BOOLEAN] :
        a.action \in {"infuse", "withdraw"}
            => /\ a.diameter = a.flowrate
               /\ a.flowrate = a.targetvolume
               /\ a.wait => ~a.diameter}

\* no command-line session: the driver classes are used as a library
NoSession ==
    [pc |-> "none",
     args |-> [action |-> "none", diameter |-> FALSE, flowrate |-> FALSE,
               targetvolume |-> FALSE, wait |-> FALSE],
     opened |-> FALSE, failed |-> FALSE, late |-> FALSE]

Idle ==
    [op |-> "", arg |-> <<>>, st |-> "", exc |-> "", err |-> "", frames |-> <<>>,
     resps |-> <<>>, log |-> <<>>, ret |-> <<>>, faults |-> 0,
     hw0 |-> AnyPeer,
     cache0 |-> NoCache]

\* the call's effect on the object and the pump, and its record; the caller
\* makes one call at a time
Call(op, arg) ==
    /\ obj = "live"
    /\ last.op = ""
    /\ chan = "open"
    /\ \E res \in Outcomes(op, arg, family, AddrStr(address), hw, cache, <<>>) :
        /\ hw' = res.hw
        /\ cache' = res.cache
        /\ last' = Record(op, arg, res)
    /\ UNCHANGED <<family, address, chan, obj, session>>

\* the constructor of the session's driver class, on an open channel
Construct ==
    /\ obj = "none"
    /\ chan = "open"
    /\ family \in {"Pump", "PHD2000", "Pump33"}
    /\ \E res \in Outcomes("__init__", <<>>, family, AddrStr(address), hw, NoCache, <<>>) :
        /\ hw' = res.hw
        /\ cache' = res.cache
        /\ chan' = res.chan
        /\ obj' = IF res.st = "run" THEN "live" ELSE "failed"
        /\ last' = Record("__init__", <<>>, res)
    /\ UNCHANGED <<family, address, session>>

\* the caller has the call's result and goes on
Return ==
    /\ last.op # ""
    /\ last' = Idle
    /\ UNCHANGED <<family, address, chan, obj, hw, cache, session>>

----------------------------------------------------------------------------
(* The direction/link machine of a Pump33, from any state of the pump. *)

BadName == <<"U", "P">>

SetDirection1 ==
    /\ family = "Pump33"
    /\ \E d \in DirNames \cup {BadName} : Call("setdirection1", d)
SetDirection2 ==
    /\ family = "Pump33"
    /\ \E d \in DirNames \cup {BadName} : Call("setdirection2", d)
Par ==
    /\ family = "Pump33"
    /\ Call("par", <<>>)
GetDirection2 ==
    /\ family = "Pump33"
    /\ Call("get_direction_2", <<>>)

InitDir ==
    /\ family = "Pump33"
    /\ address = 0
    /\ chan = "open"
    /\ obj = "live"
    /\ hw \in HwStates
    /\ cache = NoCache
    /\ last = Idle
    /\ session = NoSession

NextDir ==
    \/ SetDirection1
    \/ SetDirection2
    \/ Par
    \/ GetDirection2
    \/ Return

SpecDir == InitDir /\ [][NextDir]_vars

\* the same session against a Pump 33 that honours every command of every
\* call
HonestStates == {[h EXCEPT !.peer = "honest33"] : h \in HwStates}

InitHonest ==
    /\ family = "Pump33"
    /\ address = 0
    /\ chan = "open"
    /\ obj = "live"
    /\ hw \in HonestStates
    /\ cache = NoCache
    /\ last = Idle
    /\ session = NoSession

SpecHonest == InitHonest /\ [][NextDir]_vars

----------------------------------------------------------------------------
(* Construction of a Pump, PHD2000 or Pump33 on a chain of which nothing   *)
(* is known.                                                               *)

InitProbe ==
    /\ family \in {"Pump", "PHD2000", "Pump33"}
    /\ address \in 0..MaxAddr
    /\ chan = "open"
    /\ obj = "none"
    /\ hw = AnyPeer
    /\ cache = NoCache
    /\ last = Idle
    /\ session = NoSession

NextProbe ==
    \/ Construct
    \/ Return

SpecProbe == InitProbe /\ [][NextProbe]_vars

\* the two characters before the last of the probe's reply are digits
ProbeHasAddress(resp) ==
    /\ Len(resp) >= 3
    /\ resp[Len(resp) - 2] \in DigitChars
    /\ resp[Len(resp) - 1] \in DigitChars

ProbeAddress(resp) == 10 * DigitVal(resp[Len(resp) - 2]) + DigitVal(resp[Len(resp) - 1])

\* C1: a constructor writes one VER probe and reads the reply.  On an empty
\* reply, or a reply whose two-digit address differs from the configured
\* one, it raises PumpError with the channel closed; on a reply with the
\* configured address it succeeds and the channel stays open.
C1_ConstructionProbe ==
    last.op = "__init__"
    => /\ Len(last.frames) = 1
       /\ CmdOf(last.frames[1]) = cVER
       /\ Len(last.resps) = 1
       /\ (last.resps[1] = <<>>
             \/ (ProbeHasAddress(last.resps[1]) /\ ProbeAddress(last.resps[1]) # address))
          => (last.st = "raise" /\ last.exc = "PumpError" /\ chan = "closed"
                /\ obj = "failed")
       /\ (ProbeHasAddress(last.resps[1]) /\ ProbeAddress(last.resps[1]) = address)
          => (last.st = "ok" /\ chan = "open" /\ obj = "live")

C1_Witness ==
    /\ last.op = "__init__"
    /\ family = "Pump33"
    /\ address = 1
    /\ ProbeHasAddress(last.resps[1])
    /\ ProbeAddress(last.resps[1]) = 2
    /\ last.exc = "PumpError"
    /\ chan = "closed"

----------------------------------------------------------------------------
(* The set operations of the four families on a chain of which nothing is  *)
(* known.                                                                  *)

SetDiameter ==
    /\ family \in {"Pump", "PHD2000"}
    /\ \E x \in DiameterArgs : Call("setdiameter", x)
SetFlowrate ==
    /\ family \in {"Pump", "PHD2000"}
    /\ \E x \in FlowrateArgs : Call("setflowrate", x)
MiniSetFlowrate ==
    /\ family = "MightyMini"
    /\ \E x \in MiniFlowArgs : Call("setflowrate", x)
SetTargetVolume ==
    /\ family \in {"Pump", "PHD2000"}
    /\ \E x \in TargetArgs : Call("settargetvolume", x)
SetMode ==
    /\ family = "Pump33"
    /\ \E m \in ModeNames \cup {BadName} : Call("setmode", m)
SetDiameter1 ==
    /\ family = "Pump33"
    /\ \E x \in DiameterArgs : Call("setdiameter1", x)
SetDiameter2 ==
    /\ family = "Pump33"
    /\ \E x \in DiameterArgs : Call("setdiameter2", x)
SetFlowrate1 ==
    /\ family = "Pump33"
    /\ \E x \in FlowrateArgs : Call("setflowrate1", x)
SetFlowrate2 ==
    /\ family = "Pump33"
    /\ \E x \in FlowrateArgs : Call("setflowrate2", x)

InitSet ==
    /\ family \in {"Pump", "PHD2000", "MightyMini", "Pump33"}
    /\ address = 0
    /\ chan = "open"
    /\ obj = "live"
    /\ hw = AnyPeer
    /\ cache = NoCache
    /\ last = Idle
    /\ session = NoSession

NextSet ==
    \/ SetDiameter
    \/ SetFlowrate
    \/ MiniSetFlowrate
    \/ SetTargetVolume
    \/ SetMode
    \/ SetDiameter1
    \/ SetDiameter2
    \/ SetFlowrate1
    \/ SetFlowrate2
    \/ Return

SpecSet == InitSet /\ [][NextSet]_vars

----------------------------------------------------------------------------
(* Starting, stopping and waiting, in the four families: on a chain of     *)
(* which nothing is known, and for Pump and PHD2000 also against a Pump 11 *)
(* that always replies.                                                    *)

Infuse ==
    /\ family \in {"Pump", "PHD2000"}
    /\ Call("infuse", <<>>)
Withdraw ==
    /\ family \in {"Pump", "PHD2000"}
    /\ Call("withdraw", <<>>)
Stop ==
    /\ family \in {"Pump", "PHD2000", "Pump33"}
    /\ Call("stop", <<>>)
Start ==
    /\ family = "Pump33"
    /\ Call("start", <<>>)
WaitUntilTarget ==
    /\ family \in {"Pump", "PHD2000"}
    /\ Call("waituntiltarget", <<>>)
MiniInfuse ==
    /\ family = "MightyMini"
    /\ Call("infuse", <<>>)
MiniStop ==
    /\ family = "MightyMini"
    /\ Call("stop", <<>>)

InitRun ==
    /\ family \in {"Pump", "PHD2000", "MightyMini", "Pump33"}
    /\ address = 0
    /\ chan = "open"
    /\ obj = "live"
    /\ hw \in {AnyPeer} \cup (IF family \in {"Pump", "PHD2000"} THEN Hw11States ELSE {})
    /\ cache = NoCache
    /\ last = Idle
    /\ session = NoSession

NextRun ==
    \/ Infuse
    \/ Withdraw
    \/ Stop
    \/ Start
    \/ WaitUntilTarget
    \/ MiniInfuse
    \/ MiniStop
    \/ Return

SpecRun == InitRun /\ [][NextRun]_vars

----------------------------------------------------------------------------
(* remove_crud on its own: the caller hands it a string of digits, points  *)
(* and spaces and gets the result.                                         *)

CrudChars == {"0", "3", ".", " "}

RECURSIVE StringsUpTo(_, _)
\* the strings over chars of length at most n
StringsUpTo(chars, n) ==
    IF n = 0 THEN {<<>>}
    ELSE With(StringsUpTo(chars, n - 1), LAMBDA shorter :
             shorter \cup {<<ch>> \o t : ch \in chars, t \in {u \in shorter : Len(u) = n - 1}})

\* "0030.2000 ", "5." and "003.200"
CrudExamples ==
    {<<"0", "0", "3", "0", ".", "2", "0", "0", "0", " ">>,
     <<"5", ".">>,
     <<"0", "0", "3", ".", "2", "0", "0">>}

CrudInputs == StringsUpTo(CrudChars, MaxCrudLen) \cup CrudExamples

RemoveCrud ==
    /\ last.op = ""
    /\ \E s \in CrudInputs :
        last' = [Idle EXCEPT !.op = "remove_crud", !.arg = s, !.st = "ok",
                             !.ret = remove_crud(s)]
    /\ UNCHANGED <<family, address, chan, obj, hw, cache, session>>

InitCrud ==
    /\ family = "Pump"
    /\ address = 0
    /\ chan = "closed"
    /\ obj = "none"
    /\ hw = AnyPeer
    /\ cache = NoCache
    /\ last = Idle
    /\ session = NoSession

NextCrud ==
    \/ RemoveCrud
    \/ Return

SpecCrud == InitCrud /\ [][NextCrud]_vars

----------------------------------------------------------------------------
(* The field encoders on their own: the diameter and flow-rate fields the  *)
(* set operations put into their frames, for a range of values.            *)

\* integer parts from 0 to beyond six digits
FieldIntParts == {0, 3, 35, 50, 120, 9876, 123456}

\* fractional digits, without trailing zeros
FieldFractions ==
    {t \in StringsUpTo({"0", "2"}, MaxFracLen) : t = <<>> \/ LastChar(t) # "0"}

FieldValues ==
    {IntNum(ip) : ip \in FieldIntParts}
        \cup {FloatNum(ip, fr) : ip \in FieldIntParts, fr \in FieldFractions}

\* the encoder's argument and its field
Encoded(op, x, field) ==
    [Idle EXCEPT !.op = op, !.arg = x, !.st = "ok", !.ret = field]

DiameterField ==
    /\ last.op = ""
    /\ family = "Pump"
    /\ \E x \in FieldValues :
        /\ ~diameter_out_of_range(x)
        /\ last' = Encoded("diameter_field", x, diameter_field(x))
    /\ UNCHANGED <<family, address, chan, obj, hw, cache, session>>

FlowrateField ==
    /\ last.op = ""
    /\ family = "Pump"
    /\ \E x \in FieldValues : last' = Encoded("flowrate_field", x, flowrate_field(x))
    /\ UNCHANGED <<family, address, chan, obj, hw, cache, session>>

Diameter33Field ==
    /\ last.op = ""
    /\ family = "Pump33"
    /\ \E x \in FieldValues :
        /\ ~diameter33_out_of_range(x)
        /\ last' = Encoded("diameter33_field", x, field33(x))
    /\ UNCHANGED <<family, address, chan, obj, hw, cache, session>>

Flowrate33Field ==
    /\ last.op = ""
    /\ family = "Pump33"
    /\ \E x \in FieldValues : last' = Encoded("flowrate33_field", x, field33(x))
    /\ UNCHANGED <<family, address, chan, obj, hw, cache, session>>

\* flow rates below zero: -5 and -12345
NegativeValues == {IntNum(0 - 5), IntNum(0 - 12345)}

MiniFrame ==
    /\ last.op = ""
    /\ family = "MightyMini"
    /\ \E x \in FieldValues \cup NegativeValues :
        last' = Encoded("mini_frame", x, mini_frame(x))
    /\ UNCHANGED <<family, address, chan, obj, hw, cache, session>>

InitField ==
    /\ family \in {"Pump", "Pump33", "MightyMini"}
    /\ address = 0
    /\ chan = "closed"
    /\ obj = "none"
    /\ hw = AnyPeer
    /\ cache = NoCache
    /\ last = Idle
    /\ session = NoSession

NextField ==
    \/ DiameterField
    \/ FlowrateField
    \/ Diameter33Field
    \/ Flowrate33Field
    \/ MiniFrame
    \/ Return

SpecField == InitField /\ [][NextField]_vars

----------------------------------------------------------------------------
(* The command line: the channel is made, the pump object constructed, the *)
(* operations the arguments ask for are called in their fixed order, and   *)
(* the finally clause closes the channel.  A step of the session is one    *)
(* statement of the script.                                                *)

\* -d 5, -f 5000 and -t 500 as the operations receive them
CliDiameter == IntNum(5)
CliFlowrate == IntNum(5000)
CliTargetVolume == IntNum(500)

\* the statements of the try block after the construction, in their order
CliOrder == <<"stop", "setdiameter", "setflowrate", "settargetvolume", "run", "wait">>

\* the if statement of the step lets the call happen
CliWanted(step, args) ==
    CASE step = "stop" -> args.action = "stop"
      [] step = "setdiameter" -> args.diameter
      [] step = "setflowrate" -> args.flowrate
      [] step = "settargetvolume" -> args.targetvolume
      [] step = "run" -> args.action \in {"infuse", "withdraw"}
      [] step = "wait" -> args.action \in {"infuse", "withdraw"} /\ args.wait

RECURSIVE cli_next(_, _)
\* the first call from statement k on, or the finally clause
cli_next(args, k) ==
    IF k > Len(CliOrder) THEN "finally"
    ELSE IF CliWanted(CliOrder[k], args) THEN CliOrder[k]
    ELSE cli_next(args, k + 1)

\* the place of a statement in the order; 0 for the construction
CliIdx(step) ==
    IF step = "construct" THEN 0 ELSE CHOOSE k \in 1..Len(CliOrder) : CliOrder[k] = step

\* a finally clause that closes the channel after a clean run only
finally_closes_on_success(failed) == ~failed

\* finally: pimp_chain.close(), whatever happened in the try block
finally_closes(failed) == TRUE

\* where the session is after a call: an exception leaves the try block, a
\* call that never returns keeps the session in it
cli_after(st, step, args) ==
    CASE st = "run" -> cli_next(args, CliIdx(step) + 1)
      [] st = "diverged" -> "looping"
      [] OTHER -> "finally"

\* a method call of the try block: on a closed channel the write fails
CliCall(step, op, arg) ==
    /\ session.pc = step
    /\ IF chan = "open"
       THEN \E res \in Outcomes(op, arg, family, AddrStr(address), hw, cache, <<>>) :
                /\ hw' = res.hw
                /\ cache' = res.cache
                /\ last' = Record(op, arg, res)
                /\ session' = [session EXCEPT !.pc = cli_after(res.st, step, session.args),
                                              !.failed = res.st # "run"]
       ELSE /\ last' = [Idle EXCEPT !.op = op, !.arg = arg, !.st = "raise",
                                    !.exc = "SerialException", !.err = "port not open"]
            /\ session' = [session EXCEPT !.pc = "finally", !.failed = TRUE, !.late = TRUE]
            /\ UNCHANGED <<hw, cache>>
    /\ UNCHANGED <<family, address, chan, obj>>

\* pimp_chain = Chain(args.port): the port opens, or the script ends here
CliOpen ==
    /\ session.pc = "open"
    /\ \/ /\ chan' = "open"
          /\ session' = [session EXCEPT !.pc = "construct", !.opened = TRUE]
       \/ /\ chan' = chan
          /\ session' = [session EXCEPT !.pc = "exit", !.failed = TRUE]
    /\ UNCHANGED <<family, address, obj, hw, cache, last>>

\* pump = PHD2000(...) / MightyMini(...) / Pump(...); MightyMini.__init__
\* reads chain.serial, which a Chain does not have
CliConstruct ==
    /\ session.pc = "construct"
    /\ IF family = "MightyMini"
       THEN /\ last' = [Idle EXCEPT !.op = "__init__", !.st = "raise",
                                    !.exc = "AttributeError",
                                    !.err = "'Chain' object has no attribute 'serial'"]
            /\ obj' = "failed"
            /\ session' = [session EXCEPT !.pc = "finally", !.failed = TRUE]
            /\ UNCHANGED <<chan, hw, cache>>
       ELSE \E res \in Outcomes("__init__", <<>>, family, AddrStr(address), hw, cache, <<>>) :
                /\ hw' = res.hw
                /\ cache' = res.cache
                /\ chan' = res.chan
                /\ obj' = IF res.st = "run" THEN "live" ELSE "failed"
                /\ last' = Record("__init__", <<>>, res)
                /\ session' = [session EXCEPT
                                  !.pc = cli_after(res.st, "construct", session.args),
                                  !.failed = res.st # "run"]
    /\ UNCHANGED <<family, address>>

CliStop ==
    /\ session.pc = "stop"
    /\ CliCall("stop", "stop", <<>>)
CliSetDiameter ==
    /\ session.pc = "setdiameter"
    /\ CliCall("setdiameter", "setdiameter", CliDiameter)
CliSetFlowrate ==
    /\ session.pc = "setflowrate"
    /\ CliCall("setflowrate", "setflowrate", CliFlowrate)
CliSetTargetVolume ==
    /\ session.pc = "settargetvolume"
    /\ CliCall("settargetvolume", "settargetvolume", CliTargetVolume)
CliRun ==
    /\ session.pc = "run"
    /\ CliCall("run", session.args.action, <<>>)
CliWait ==
    /\ session.pc = "wait"
    /\ CliCall("wait", "waituntiltarget", <<>>)

\* the finally clause
CliFinally ==
    /\ session.pc = "finally"
    /\ chan' = IF finally_closes(session.failed) THEN "closed" ELSE chan
    /\ session' = [session EXCEPT !.pc = "exit"]
    /\ UNCHANGED <<family, address, obj, hw, cache, last>>

InitCli ==
    /\ family \in {"Pump", "PHD2000", "MightyMini"}
    /\ address = 0
    /\ chan = "closed"
    /\ obj = "none"
    /\ hw = AnyPeer
    /\ cache = NoCache
    /\ last = Idle
    /\ \E a \in CliArgs : session = [NoSession EXCEPT !.pc = "open", !.args = a]

NextCli ==
    \/ CliOpen
    \/ CliConstruct
    \/ CliStop
    \/ CliSetDiameter
    \/ CliSetFlowrate
    \/ CliSetTargetVolume
    \/ CliRun
    \/ CliWait
    \/ CliFinally

SpecCli == InitCli /\ [][NextCli]_vars

----------------------------------------------------------------------------
(* Pump.waituntiltarget poll by poll, against the Pump 11: a step is one   *)
(* write and read of the loop with the tests that follow it.  The locals   *)
(* of the running call are in last.arg: i (only i == 0 is ever tested, so  *)
(* it stops counting at MaxLoop), the poll that comes next, and resp1.     *)

WaitLocals(i, poll, resp1) == [i |-> i, poll |-> poll, resp1 |-> resp1]

\* the running call with its locals, and the call ended
Waiting(i, poll, resp1) ==
    [Idle EXCEPT !.op = "waituntiltarget", !.st = "run", !.arg = WaitLocals(i, poll, resp1),
                 !.hw0 = last.hw0, !.cache0 = last.cache0]
WaitEnded(st, exc, err) ==
    [last EXCEPT !.st = st, !.exc = exc, !.err = err]

\* the answers of the pump to one VOL poll
VolPolls == Outcomes("Pump.write_read", <<cVOL, 15>>, family, AddrStr(address), hw, cache, <<>>)

WaitBegin ==
    /\ last.op = ""
    /\ obj = "live"
    /\ last' = [Idle EXCEPT !.op = "waituntiltarget", !.st = "run",
                            !.arg = WaitLocals(0, 1, <<>>), !.hw0 = hw, !.cache0 = cache]
    /\ UNCHANGED <<family, address, chan, obj, hw, cache, session>>

\* resp1 = self.read(15) and the two tests on it
WaitPoll1 ==
    /\ last.op = "waituntiltarget"
    /\ last.st = "run"
    /\ last.arg.poll = 1
    /\ \E res \in VolPolls :
        /\ hw' = res.hw
        /\ last' = IF res.st # "run" THEN WaitEnded("raise", res.exc, res.err)
                   ELSE IF not_running(res.resp, last.arg.i)
                   THEN WaitEnded("raise", "PumpError",
                                  "not infusing/withdrawing - infuse or withdraw first")
                   ELSE IF HasChar(res.resp, ":") /\ last.arg.i # 0
                   THEN WaitEnded("ok", "", "")
                   ELSE Waiting(last.arg.i, 2, res.resp)
    /\ UNCHANGED <<family, address, chan, obj, cache, session>>

\* resp2 = self.read(15), the comparison, and i = i + 1
WaitPoll2 ==
    /\ last.op = "waituntiltarget"
    /\ last.st = "run"
    /\ last.arg.poll = 2
    /\ \E res \in VolPolls :
        /\ hw' = res.hw
        /\ last' = IF res.st # "run" THEN WaitEnded("raise", res.exc, res.err)
                   ELSE IF polls_same(last.arg.resp1, res.resp)
                   THEN WaitEnded("ok", "", "")
                   ELSE Waiting(Min(last.arg.i + 1, MaxLoop), 1, <<>>)
    /\ UNCHANGED <<family, address, chan, obj, cache, session>>

\* the caller has the result of the wait
WaitReturn ==
    /\ last.op = "waituntiltarget"
    /\ last.st \in {"ok", "raise"}
    /\ last' = Idle
    /\ UNCHANGED <<family, address, chan, obj, hw, cache, session>>

InitWait ==
    /\ family \in {"Pump", "PHD2000"}
    /\ address \in 0..MaxAddr
    /\ chan = "open"
    /\ obj = "live"
    /\ hw \in Hw11States
    /\ cache = NoCache
    /\ last = Idle
    /\ session = NoSession

NextWait ==
    \/ WaitBegin
    \/ WaitPoll1
    \/ WaitPoll2
    \/ WaitReturn

\* the loop goes on by itself: every read returns within the channel's
\* timeout and the next statement runs
SpecWait == InitWait /\ [][NextWait]_vars /\ WF_vars(WaitPoll1) /\ WF_vars(WaitPoll2)

----------------------------------------------------------------------------
(* Properties of the direction/link machine. *)

\* the direction of syringe 2 that the pump's registers stand for
HwDirection2(h) == IF h.par = ON THEN h.dir1 ELSE OtherDir(h.dir1)

\* the positions in a call's frames of a given command
FramesOf(frames, cmds) == {i \in 1..Len(frames) : CmdOf(frames[i]) \in cmds}

ParSetCmds == {cPAR_ON, cPAR_OFF}

\* C3: setdirection2 is mode-gated: with the mode register not Proportional
\* the call raises PumpError, having queried the mode and written no
\* PAR ON / PAR OFF frame.
C3_Direction2ModeGated ==
    (last.op = "setdirection2" /\ last.arg \in DirNames /\ last.faults = 0
        /\ last.hw0.mode # PRO)
    => /\ last.st = "raise"
       /\ last.exc = "PumpError"
       /\ FramesOf(last.frames, {cMOD}) # {}
       /\ FramesOf(last.frames, ParSetCmds) = {}

\* C8: for each pair (direction1, parallel) the pump reports, get_direction_2
\* returns direction1 iff parallel is ON, and the other direction otherwise.
C8_Direction2Derivation ==
    (last.op = "get_direction_2" /\ last.st = "ok"
        /\ Slice(last.resps[1], 1, 7) \in Dirs
        /\ Slice(last.resps[2], 1, -4) \in Pars)
    => LET direction1 == Slice(last.resps[1], 1, 7)
           parallel == Slice(last.resps[2], 1, -4)
       IN  /\ last.ret \in Dirs
           /\ (last.ret = direction1) <=> (parallel = ON)

C8_Witness ==
    /\ last.op = "get_direction_2"
    /\ last.st = "ok"
    /\ Slice(last.resps[1], 1, 7) = INFUSE
    /\ Slice(last.resps[2], 1, -4) = OFF
    /\ last.ret = REFILL

\* C9: against a pump that honours every command, setdirection2 with the
\* complement of syringe 2's current direction writes exactly one PAR ON /
\* PAR OFF frame and no DIR REV frame, leaves the direction1 register alone,
\* and leaves the registers standing for the requested direction.
C9_Direction2Toggle ==
    (last.op = "setdirection2" /\ last.faults = 0
        /\ last.arg = OtherDir(HwDirection2(last.hw0)))
    => /\ Cardinality(FramesOf(last.frames, ParSetCmds)) = 1
       /\ FramesOf(last.frames, {cDIR_REV}) = {}
       /\ hw.dir1 = last.hw0.dir1
       /\ HwDirection2(hw) = last.arg

C9_Witness ==
    /\ last.op = "setdirection2"
    /\ last.faults = 0
    /\ last.st = "ok"
    /\ last.hw0.par = OFF
    /\ last.hw0.dir1 = INFUSE
    /\ last.arg = INFUSE
    /\ hw.par = ON
    /\ FramesOf(last.frames, {cPAR_ON}) # {}

\* C10: against a pump that honours every command, setdirection1(d) with d
\* INFUSE or REFILL and not the current direction1 writes DIR REV and then
\* one PAR ON / PAR OFF frame, after which direction1 is d and syringe 2's
\* direction is what it was; with d the current direction1 it writes neither
\* and no register changes.
C10_Direction1Set ==
    (last.op = "setdirection1" /\ last.faults = 0 /\ last.arg \in Dirs)
    => IF last.arg # last.hw0.dir1
       THEN /\ Cardinality(FramesOf(last.frames, {cDIR_REV})) = 1
            /\ Cardinality(FramesOf(last.frames, ParSetCmds)) = 1
            /\ \A i \in FramesOf(last.frames, {cDIR_REV}) :
                 \A j \in FramesOf(last.frames, ParSetCmds) : i < j
            /\ hw.dir1 = last.arg
            /\ HwDirection2(hw) = HwDirection2(last.hw0)
       ELSE /\ FramesOf(last.frames, {cDIR_REV}) = {}
            /\ FramesOf(last.frames, ParSetCmds) = {}
            /\ hw = last.hw0

C10_Witness ==
    /\ last.op = "setdirection1"
    /\ last.faults = 0
    /\ last.st = "ok"
    /\ last.arg = REFILL
    /\ last.hw0.dir1 = INFUSE
    /\ last.hw0.par = ON
    /\ hw.dir1 = REFILL
    /\ hw.par = OFF

----------------------------------------------------------------------------
(* Properties of the set operations. *)

\* a frame that sets a syringe-2 register: RAT B or DIA B and a field
IsSet2Frame(frame) ==
    \E cmd \in {cRAT_B, cDIA_B} : StartsWith(CmdOf(frame), cmd) /\ Len(CmdOf(frame)) > Len(cmd)

\* C2: on Pump33, when the reply to the MOD query carries a mode other than
\* PRO, setflowrate2 and setdiameter2 raise PumpError, no RAT B<field> or
\* DIA B<field> frame is written in the call, and the cached flowrate2 and
\* diameter2 are what they were.
C2_Syringe2ModeGate ==
    (last.op \in {"setflowrate2", "setdiameter2"}
        /\ last.resps[1] # <<>>
        /\ last.resps[1] # Reply33(PRO, AddrStr(address), ":"))
    => /\ last.st = "raise"
       /\ last.exc = "PumpError"
       /\ \A i \in 1..Len(last.frames) : ~IsSet2Frame(last.frames[i])
       /\ cache.flowrate2 = last.cache0.flowrate2
       /\ cache.diameter2 = last.cache0.diameter2

C2_Witness ==
    /\ last.op = "setflowrate2"
    /\ last.resps[1] = Reply33(AUT, AddrStr(address), ":")
    /\ last.st = "raise"
    /\ last.exc = "PumpError"
    /\ Len(last.frames) = 1
    /\ cache.flowrate2 # None

\* the diameter is outside [0.1, max]
DiameterOutside(x, max) == GreaterThan(x, max) \/ LessThanTenth(x)

\* C4: for a diameter outside [0.1, 35] (Pump, PHD2000) or [0.1, 50]
\* (Pump33), setdiameter, setdiameter1 and setdiameter2 raise PumpError
\* with no frame written in the call.
C4_DiameterRangeBeforeFrames ==
    (last.op \in {"setdiameter", "setdiameter1", "setdiameter2"}
        /\ DiameterOutside(last.arg, IF family = "Pump33" THEN 50 ELSE 35))
    => /\ last.st = "raise"
       /\ last.exc = "PumpError"
       /\ last.frames = <<>>

\* the place of the set frame among the frames of a set-flow-rate call
SetFrameIdx(op) == IF op = "setflowrate2" THEN 2 ELSE 1

\* C5: when the reply to the set frame of setflowrate (Pump, PHD2000),
\* setflowrate1 or setflowrate2 has OOR in it, whatever its last character,
\* the call raises the out-of-range PumpError, writes no frame after the set
\* frame, and leaves the cache as it was.
C5_OutOfRangeReply ==
    (last.op \in {"setflowrate", "setflowrate1", "setflowrate2"}
        /\ family # "MightyMini"
        /\ Len(last.resps) >= SetFrameIdx(last.op)
        /\ Contains(last.resps[SetFrameIdx(last.op)], OOR))
    => /\ last.st = "raise"
       /\ last.exc = "PumpError"
       /\ last.err = "flow rate is out of range"
       /\ Len(last.frames) = SetFrameIdx(last.op)
       /\ cache = last.cache0

\* the set operations with a verification query, the place of the query
\* among the frames of the call, and the bytes read of its reply
VerifiedSetOps ==
    {"setdiameter", "setflowrate", "setmode", "setdiameter1", "setdiameter2",
     "setflowrate1", "setflowrate2"}
VerifyIdx(op) == IF op \in {"setdiameter2", "setflowrate2"} THEN 3 ELSE 2
VerifyBytes(fam, op) ==
    CASE fam = "MightyMini" -> 11
      [] op = "setflowrate" -> 150
      [] op = "setflowrate1" -> 20
      [] op = "setflowrate2" -> 5
      [] OTHER -> 15

\* what a pump that took the requested value answers to the verification
\* query
ExpectedReadback(fam, op, arg, addr) ==
    CASE fam = "MightyMini" -> ReplyMiniRate(Str(Div1000(IntNum(mini_flowrate(arg)))))
      [] op = "setdiameter" -> Reply11Dia(Render6(diameter_field(arg)), addr)
      [] op = "setflowrate" -> Reply11Rat(Render6(flowrate_field(arg)), addr)
      [] op = "setmode" -> Reply33(arg, addr, ":")
      [] op \in {"setdiameter1", "setdiameter2"} -> Reply33(Render6(field33(arg)), addr, ":")
      [] op \in {"setflowrate1", "setflowrate2"} -> Reply33Rat(Render6(field33(arg)), addr)

\* the values a call of the operation may ask for
ArgsOf(fam, op) ==
    CASE fam = "MightyMini" -> MiniFlowArgs
      [] op = "setmode" -> ModeNames
      [] op \in {"setdiameter", "setdiameter1", "setdiameter2"} -> DiameterArgs
      [] OTHER -> FlowrateArgs

\* what is read of the answer of a pump holding the value x
ReadbackOf(x) ==
    Take(ExpectedReadback(family, last.op, x, AddrStr(address)),
         VerifyBytes(family, last.op))

\* the verification query of the call was answered with the printing of a
\* value other than the requested one
ReadbackDiffers ==
    /\ last.op \in VerifiedSetOps
    /\ Len(last.resps) = VerifyIdx(last.op)
    /\ last.resps[VerifyIdx(last.op)] # ReadbackOf(last.arg)
    /\ \E x \in ArgsOf(family, last.op) : last.resps[VerifyIdx(last.op)] = ReadbackOf(x)

\* C6: in every family, a set operation whose verification query reads back
\* something other than the requested value returns normally, logs the
\* mismatch as an error, and leaves the cache as it was.
C6_MismatchNeverRaises ==
    ReadbackDiffers
    => /\ last.st = "ok"
       /\ \E i \in 1..Len(last.log) : last.log[i][1] = "error"
       /\ cache = last.cache0

\* a frame that queries a register
IsQueryFrame(fam, frame) ==
    IF fam = "MightyMini"
    THEN frame = cCC
    ELSE CmdOf(frame) \in {cDIA, cRAT, cMOD, cDIA_A, cDIA_B, cRAT_A, cRAT_B, cDIR, cPAR}

\* C7: a cached field is written only with a value a verification query
\* returned: a call that changes the cache has ended on the reply to a query
\* frame.
C7_CacheOnlyVerified ==
    (last.op # "" /\ cache # last.cache0)
    => /\ last.frames # <<>>
       /\ IsQueryFrame(family, last.frames[Len(last.frames)])

----------------------------------------------------------------------------
(* setdirection1 with REVERSE. *)

\* C11: against a pump that honours every command, setdirection1("REVERSE")
\* writes DIR REV and no PAR ON / PAR OFF frame: the parallel flag is what it
\* was and both syringes' directions are flipped.
C11_ReverseNoToggle ==
    (last.op = "setdirection1" /\ last.arg = REVERSE /\ last.faults = 0)
    => /\ FramesOf(last.frames, {cDIR_REV}) # {}
       /\ FramesOf(last.frames, ParSetCmds) = {}
       /\ hw.par = last.hw0.par
       /\ hw.dir1 = OtherDir(last.hw0.dir1)
       /\ HwDirection2(hw) = OtherDir(HwDirection2(last.hw0))

\* C12: against a pump that honours every command, setdirection1("REVERSE")
\* from direction1 INFUSE and from REFILL logs no mismatch and caches the
\* direction the pump reports after the reversal.
C12_ReverseSatisfied ==
    (last.op = "setdirection1" /\ last.arg = REVERSE /\ last.faults = 0)
    => /\ last.st = "ok"
       /\ \A i \in 1..Len(last.log) : last.log[i][1] # "error"
       /\ cache.direction1 = StrVal(hw.dir1)

----------------------------------------------------------------------------
(* Replies that are empty or not recognized. *)

\* C13: in every operation of every family, a read that returns zero bytes
\* ends the call there with a PumpError.
C13_ZeroBytesNoResponse ==
    (last.op # "" /\ \E i \in 1..Len(last.resps) : last.resps[i] = <<>>)
    => /\ last.st = "raise"
       /\ last.exc = "PumpError"
       /\ last.resps[Len(last.resps)] = <<>>
       /\ \A i \in 1..(Len(last.resps) - 1) : last.resps[i] # <<>>

\* the place of the acknowledged frame among the frames of a set operation
AckIdx(op) == IF op \in {"setdiameter2", "setflowrate2"} THEN 2 ELSE 1

\* a non-empty acknowledgement with no recognized status: for MightyMini one
\* that does not begin with OK, for the others one whose last character is
\* none of ':', '>', '<' and that has no OOR in it
UnrecognizedAck(fam, resp) ==
    /\ resp # <<>>
    /\ IF fam = "MightyMini"
       THEN ~StartsWith(resp, <<"O", "K">>)
       ELSE LastChar(resp) \notin {":", ">", "<"} /\ ~Contains(resp, OOR)

\* C14: a call whose command is acknowledged with an unrecognized status
\* raises PumpError.
C14_UnrecognizedAckRaises ==
    (last.op # "" /\ Len(last.resps) >= AckIdx(last.op)
        /\ UnrecognizedAck(family, last.resps[AckIdx(last.op)]))
    => /\ last.st = "raise"
       /\ last.exc = "PumpError"


-----------------------------------------------------------------------------
\* Starting and stopping

\* the last characters of a reply with which start or stop returns normally
ExpectedStatus(fam, op) ==
    IF op = "start" THEN {">", "<"}
    ELSE IF fam = "PHD2000" THEN {"*"}
    ELSE {":"}

\* C15: start and stop of Pump, PHD2000 and Pump33 write one frame and read
\* one reply; they return normally exactly when the reply's last character is
\* the expected status ('>' or '<' for start, ':' for stop, '*' for
\* PHD2000.stop) and raise PumpError on every other reply.
C15_StartStopSingleRoundTrip ==
    (last.op \in {"start", "stop"} /\ family # "MightyMini")
    => /\ Len(last.frames) = 1
       /\ Len(last.resps) = 1
       /\ CmdOf(last.frames[1]) = (IF last.op = "start" THEN cRUN ELSE cSTP)
       /\ last.st = "ok" <=>
            (last.resps[1] # <<>>
             /\ LastChar(last.resps[1]) \in ExpectedStatus(family, last.op))
       /\ last.st # "ok" => (last.st = "raise" /\ last.exc = "PumpError")

\* PHD2000.stop has returned normally on '*', or Pump33.start has raised on ':'
C15_Witness ==
    \/ /\ last.op = "stop" /\ family = "PHD2000" /\ last.st = "ok"
       /\ LastChar(last.resps[1]) = "*"
    \/ /\ last.op = "start" /\ family = "Pump33" /\ last.st = "raise"
       /\ last.resps[1] # <<>> /\ LastChar(last.resps[1]) = ":"

-----------------------------------------------------------------------------
\* The correction loop of Pump.infuse and Pump.withdraw

\* the status with which the operation is satisfied
DesiredStatus(op) == IF op = "infuse" THEN ">" ELSE "<"

\* the running status of the other direction
WrongStatus(op) == IF op = "infuse" THEN "<" ELSE ">"

\* the reply of the call's last round trip
FinalReply(l) == l.resps[Len(l.resps)]

\* C16: Pump.infuse and Pump.withdraw return normally only after a reply with
\* the desired status, write REV after every reply that shows the other
\* running direction, and raise only on a reply whose last character is none
\* of ':', '>', '<' (or on a read of zero bytes).
C16_CorrectionLoop ==
    (last.op \in {"infuse", "withdraw"} /\ family \in {"Pump", "PHD2000"})
    => /\ last.st = "ok" => LastChar(FinalReply(last)) = DesiredStatus(last.op)
       /\ \A i \in 1..(Len(last.frames) - 1) :
            LastChar(last.resps[i]) = WrongStatus(last.op)
                => CmdOf(last.frames[i + 1]) = cREV
       /\ last.st = "raise"
            => \/ FinalReply(last) = <<>>
               \/ LastChar(FinalReply(last)) \notin {":", ">", "<"}

\* the call was made against the Pump 11 that answers every frame, starts on
\* RUN and flips its direction on REV
AgainstPump11(l) == l.hw0.peer = "pump11"

\* C17: against a Pump 11 that always replies, starts on RUN and flips its
\* direction on REV, Pump.infuse and Pump.withdraw end, from every state of
\* the pump (stopped, infusing, withdrawing, either direction set), after at
\* most three frames, and they end by returning normally.
C17_CorrectionLoopBounded ==
    (last.op \in {"infuse", "withdraw"} /\ AgainstPump11(last))
    => /\ last.st = "ok"
       /\ Len(last.frames) <= 3
       /\ hw.run = DesiredStatus(last.op)

\* withdraw against a stopped pump set to withdraw: REV, RUN, REV; and
\* infuse against a pump that was withdrawing: RUN, REV
C17_Witness ==
    \/ /\ last.op = "withdraw" /\ AgainstPump11(last)
       /\ last.hw0.run = ":" /\ last.hw0.dir1 = REFILL
       /\ Len(last.frames) = 3 /\ last.st = "ok"
    \/ /\ last.op = "infuse" /\ AgainstPump11(last)
       /\ last.hw0.run = "<"
       /\ Len(last.frames) = 2 /\ last.st = "ok"

-----------------------------------------------------------------------------
\* Pump.waituntiltarget

\* the replies to the first and second poll of iteration k (from 0)
FirstPoll(l, k) == l.resps[2 * k + 1]
SecondPoll(l, k) == l.resps[2 * k + 2]

\* the iterations the call began, and those in which it polled twice
IterationsBegun(l) == {k \in 0..MaxLoop : 2 * k + 1 <= Len(l.resps)}
IterationsPolledTwice(l) == {k \in 0..MaxLoop : 2 * k + 2 <= Len(l.resps)}

\* the reply shows the stopped status
ShowsStopped(resp) == HasChar(resp, ":")

\* C18: waituntiltarget raises exactly when the first poll of the first
\* iteration shows ':' or a poll returns zero bytes, always a PumpError, with
\* the text "not infusing/withdrawing - infuse or withdraw first" in the first case; a ':' in the first
\* poll of a later iteration ends the call normally, with no second poll.
C18_NotRunningOnlyAtFirstPoll ==
    (last.op = "waituntiltarget" /\ last.st # "diverged")
    => /\ last.st = "raise" <=>
            \/ ShowsStopped(FirstPoll(last, 0))
            \/ \E i \in 1..Len(last.resps) : last.resps[i] = <<>>
       /\ last.st = "raise" => last.exc = "PumpError"
       /\ (last.st = "raise" /\ last.err = "not infusing/withdrawing - infuse or withdraw first") <=>
            ShowsStopped(FirstPoll(last, 0))
       /\ \A k \in IterationsBegun(last) :
            (k > 0 /\ ShowsStopped(FirstPoll(last, k)))
                => (last.st = "ok" /\ Len(last.resps) = 2 * k + 1)

\* the wait was ended by ':' in the first poll of the second iteration, or
\* refused because of ':' in the very first poll
C18_Witness ==
    /\ last.op = "waituntiltarget"
    /\ \/ /\ last.st = "ok" /\ Len(last.resps) = 3
          /\ ShowsStopped(FirstPoll(last, 1))
       \/ /\ last.st = "raise" /\ Len(last.resps) = 1
          /\ ShowsStopped(FirstPoll(last, 0))

\* C19: waituntiltarget returns normally at the first iteration whose two
\* polls return the same reply, the first iteration included, and goes on to
\* another iteration after every iteration whose two polls differ.
C19_ReturnsOnIdenticalPolls ==
    last.op = "waituntiltarget"
    => /\ \A k \in IterationsPolledTwice(last) :
            /\ (SecondPoll(last, k) # <<>> /\ FirstPoll(last, k) = SecondPoll(last, k))
                => (last.st = "ok" /\ Len(last.resps) = 2 * k + 2)
            /\ (SecondPoll(last, k) # <<>> /\ FirstPoll(last, k) # SecondPoll(last, k))
                => (Len(last.resps) > 2 * k + 2 \/ last.st = "diverged")
       /\ (last.st = "ok" /\ Len(last.resps) % 2 = 0)
            => last.resps[Len(last.resps) - 1] = FinalReply(last)

\* the polls of the first iteration differed and those of the second were
\* the same, or the polls of the first iteration were the same
C19_Witness ==
    /\ last.op = "waituntiltarget"
    /\ last.st = "ok"
    /\ \/ /\ Len(last.resps) = 4
          /\ FirstPoll(last, 0) # SecondPoll(last, 0)
          /\ FirstPoll(last, 1) = SecondPoll(last, 1)
       \/ /\ Len(last.resps) = 2
          /\ FirstPoll(last, 0) = SecondPoll(last, 0)

\* C20: when waituntiltarget returns normally against a Pump 11, the pump is
\* stopped and its volume is the target volume.
C20_ReturnsOnlyWhenStopped ==
    (last.op = "waituntiltarget" /\ last.st = "ok" /\ AgainstPump11(last))
    => /\ hw.run = ":"
       /\ hw.vol = MaxVol

-----------------------------------------------------------------------------
\* remove_crud

\* C21: remove_crud applied to its own result gives that result again.
C21_RemoveCrudIdempotent ==
    last.op = "remove_crud" => remove_crud(last.ret) = last.ret

\* t is s without some characters at its two ends
IsInfix(t, s) ==
    \E i \in 0..(Len(s) - Len(t)) : SubSeq(s, i + 1, i + Len(t)) = t

\* what remove_crud is to make of the three examples
CrudExpected(s) ==
    CASE s = <<"0", "0", "3", "0", ".", "2", "0", "0", "0", " ">> -> <<"3", "0", ".", "2">>
      [] s = <<"5", ".">> -> <<"5">>
      [] s = <<"0", "0", "3", ".", "2", "0", "0">> -> <<"3", ".", "2">>
      [] OTHER -> remove_crud(s)

\* C22: remove_crud takes characters from the two ends of the string only,
\* leaves no zero or space at the left end and no space or point at the right
\* end, and "0030.2000 ", "5." and "003.200" become "30.2", "5" and "3.2".
C22_RemoveCrudStrips ==
    last.op = "remove_crud"
    => /\ IsInfix(last.ret, last.arg)
       /\ last.ret # <<>> => (last.ret[1] \notin {"0", " "}
                              /\ LastChar(last.ret) \notin {" ", "."})
       /\ last.ret = CrudExpected(last.arg)

-----------------------------------------------------------------------------
\* Field widths and encodings

\* the cut of the encoder, applied to a string
CutOf(op, field) ==
    CASE op = "diameter_field" -> diameter_cut(field)
      [] op = "flowrate_field" -> flowrate_cut(field)
      [] OTHER -> cut33(field)

\* the width beyond which the encoder cuts
WidthOf(op) == IF op \in {"diameter_field", "flowrate_field"} THEN 5 ELSE 6

FieldOps == {"diameter_field", "flowrate_field", "diameter33_field", "flowrate33_field"}

MiniFieldOf(frame) == SliceFrom(frame, 2)

\* C24: the frame of MightyMini.setflowrate is FM and four decimal digits
\* that print min(int(flowrate), 9999), for every flow rate.
C24_MiniFieldFourDigits ==
    last.op = "mini_frame"
    => /\ StartsWith(last.ret, cFM)
       /\ Len(MiniFieldOf(last.ret)) = 4
       /\ AllDigits(MiniFieldOf(last.ret))
       /\ DigitsVal(MiniFieldOf(last.ret)) = Min(last.arg.ip, 9999)

-----------------------------------------------------------------------------
\* The command-line session

\* the session is in the try block or past it
CliStarted == session.pc \notin {"none", "open"}

\* C25: in a command-line session the pump object is constructed only with
\* the channel made; the channel is closed when the script ends, after a
\* clean run, a failed construction or a failed operation; and once the
\* channel is closed nothing but the finally clause runs, so no frame is
\* written to it.
C25_ChannelClosedOnExit ==
    /\ (obj # "none" /\ session.pc # "none") => session.opened
    /\ (session.pc = "exit" /\ session.opened) => chan = "closed"
    /\ (CliStarted /\ session.opened /\ chan = "closed")
            => session.pc \in {"finally", "exit"}
    /\ ~session.late

\* the script has ended after a construction that failed without closing the
\* channel itself
C25_Witness ==
    /\ session.pc = "exit"
    /\ session.failed
    /\ last.op = "__init__"
    /\ last.exc = "ValueError"
    /\ chan = "closed"

-----------------------------------------------------------------------------
\* Pump33.par

\* the flag in a reply to PAR, and the other flag
ParRead(resp) == Slice(resp, 1, -4)
OtherPar(p) == IF p = ON THEN OFF ELSE ON

\* the call has logged an error
LoggedError(l) == \E i \in 1..Len(l.log) : l.log[i][1] = "error"

\* C26: par() writes PAR, then PAR OFF if ON was read and PAR ON if OFF was
\* read, then PAR again; a readback other than the flag written is logged
\* as an error and the call returns normally; against a pump that honours
\* every command the call flips the flag, and a second call puts it back.
C26_ParSequence ==
    last.op = "par"
    => /\ Len(last.frames) \in 1..3
       /\ CmdOf(last.frames[1]) = cPAR
       /\ Len(last.frames) >= 2
            => /\ ParRead(last.resps[1]) \in {ON, OFF}
               /\ CmdOf(last.frames[2]) =
                    (IF ParRead(last.resps[1]) = ON THEN cPAR_OFF ELSE cPAR_ON)
       /\ Len(last.frames) = 3 => CmdOf(last.frames[3]) = cPAR
       /\ (Len(last.resps) = 3 /\ last.resps[3] # <<>>)
            => /\ last.st = "ok"
               /\ LoggedError(last)
                    <=> ParRead(last.resps[3]) # OtherPar(ParRead(last.resps[1]))
       /\ last.faults = 0
            => /\ last.st = "ok"
               /\ Len(last.frames) = 3
               /\ hw.par = OtherPar(last.hw0.par)
               /\ \A res \in Outcomes("par", <<>>, family, AddrStr(address), hw, cache, <<>>) :
                    NumFaults(res.script) = 0 => res.hw.par = last.hw0.par

\* the pump acknowledged the write and did not carry it out: the readback is
\* the old flag, the error is logged and the call has returned
C26_Witness ==
    /\ last.op = "par"
    /\ last.st = "ok"
    /\ Len(last.resps) = 3
    /\ ParRead(last.resps[1]) = ON
    /\ ParRead(last.resps[3]) = ON
    /\ LoggedError(last)
    /\ hw.par = ON

-----------------------------------------------------------------------------
\* The width of the numeric field of a set frame

\* the command is a set command of the family, with a numeric field
IsNumericSet(fam, cmd) ==
    IF fam = "Pump33"
    THEN Len(cmd) > 5 /\ \E p \in {cDIA_A, cDIA_B, cRAT_A, cRAT_B} : StartsWith(cmd, p)
    ELSE Len(cmd) > 3 /\ \E p \in {cMMD, cULM, cMLT} : StartsWith(cmd, p)

\* its numeric field: what follows the mnemonic, without the unit of RAT
NumericFieldOf(fam, cmd) ==
    IF fam # "Pump33" THEN SliceFrom(cmd, 3)
    ELSE IF StartsWith(cmd, cRAT_A) \/ StartsWith(cmd, cRAT_B) THEN Slice(cmd, 5, -2)
    ELSE SliceFrom(cmd, 5)

MaxFieldWidth(fam) == IF fam = "Pump33" THEN 6 ELSE 5

\* C27: the numeric field of every set frame (MMD, ULM, MLT of Pump and
\* PHD2000; DIA A/B, RAT A/B of Pump33) is at most 5 characters long for
\* Pump and PHD2000 and at most 6 for Pump33.
C27_FieldWithinWidth ==
    (last.op # "" /\ family # "MightyMini")
    => \A i \in 1..Len(last.frames) :
            IsNumericSet(family, CmdOf(last.frames[i]))
                => Len(NumericFieldOf(family, CmdOf(last.frames[i]))) <= MaxFieldWidth(family)

-----------------------------------------------------------------------------
\* Termination of Pump.waituntiltarget

\* C28: against a Pump 11 that answers every VOL poll and stops when it has
\* reached its target, a running waituntiltarget ends, by returning or by
\* raising.
C28_WaitTerminates ==
    (last.op = "waituntiltarget" /\ last.st = "run")
        ~> (last.op = "waituntiltarget" /\ last.st \in {"ok", "raise"})

\* the pump stopped during the wait, after polls that differed, and the wait
\* has returned
C28_Witness ==
    /\ last.op = "waituntiltarget"
    /\ last.st = "ok"
    /\ last.arg.i > 0
    /\ last.hw0.run # ":"
    /\ hw.run = ":"

-----------------------------------------------------------------------------
\* The cached directions against the pump's registers

\* the cached field is unset or holds the direction d
UnsetOr(field, d) == field.t = "None" \/ field.s = d

\* C29: against a Pump 33 that honours every command, after every call of
\* setdirection1, setdirection2, par or get_direction_2 the cached direction1
\* is unset or the pump's direction1, and the cached direction2 is unset or
\* the direction of syringe 2 that the pump's direction1 and parallel flag
\* give.
C29_CachedDirectionsMatch ==
    /\ UnsetOr(cache.direction1, hw.dir1)
    /\ UnsetOr(cache.direction2, HwDirection2(hw))
=============================================================================
